---- MODULE Spec2Model ----
(***************************************************************************)
(* A state-machine model of the definition-time API of aws-rfdk's NFS and  *)
(* FSx-for-Lustre mounting constructs:                                     *)
(*   MountableNfs        lib/core/lib/mountable-nfs.ts                     *)
(*   MountableFsxLustre  src/unnamed/part_001                              *)
(*   NfsInstance         src/unnamed/part_002                              *)
(* and of two boot scripts as they run on an instance: mountNfs.sh and the *)
(* Lustre client installation commands of MountableFsxLustre.              *)
(* Strings that the code renders into boot scripts are rendered here with  *)
(* string concatenation, so that the exact text can be compared.  Paths    *)
(* that the code normalises are sequences of one-character strings, so     *)
(* that normalisation is computed rather than assumed.                     *)
(***************************************************************************)
EXTENDS Integers, Sequences, FiniteSets, TLC

VARIABLES
    children,      \* construct tree: set of [scope, id, type, handle]
    nextHandle,    \* next fresh object identity
    userData,      \* per instance: sequence of boot commands [kind, text]
    onExitLines,   \* per instance: commands of the exit trap
    ingress,       \* network policy: set of [from, to, port]
    grants,        \* read grants: set of [asset, principal]
    nfs,           \* the NfsInstance object (fields of part_002:290-345)
    exports,       \* NfsInstance.exports
    securityGroups,\* security groups added to the server's autoscaling group
    lookups,       \* history: the values mountAssetSingleton returned, in order
    lastCall,      \* history: the last API call and how it ended
    nCalls,        \* number of API calls made (constructions included)
    nConstructs,   \* number of NfsInstance constructions attempted
    probe,         \* input and output of the pure functions (SpecPure)
    script         \* a boot script in execution on an instance (SpecMountNfs, SpecKernel)

vars == <<children, nextHandle, userData, onExitLines, ingress, grants, nfs,
          exports, securityGroups, lookups, lastCall, nCalls, nConstructs, probe, script>>

(***************************************************************************)
(* Bounds of the model.                                                    *)
(***************************************************************************)
MaxCalls == 4
MaxPathLen == 4
MaxExtras == 2

(***************************************************************************)
(* Optional values (TypeScript's undefined): <<>> is undefined, <<v>> is v. *)
(***************************************************************************)
None == <<>>
Some(v) == <<v>>
IsSome(o) == o # <<>>

(***************************************************************************)
(* Sequence helpers.                                                       *)
(***************************************************************************)
RECURSIVE Concat(_)
Concat(ss) == IF ss = <<>> THEN "" ELSE Head(ss) \o Concat(Tail(ss))

IsPrefix(s, t) == Len(s) <= Len(t) /\ SubSeq(t, 1, Len(s)) = s

SeqsUpTo(S, n) == UNION {[1..k -> S] : k \in 0..n}

\* Array.prototype.join(sep)
RECURSIVE Join(_, _)
Join(ss, sep) ==
    IF ss = <<>> THEN ""
    ELSE IF Len(ss) = 1 THEN ss[1]
    ELSE ss[1] \o sep \o Join(Tail(ss), sep)

(***************************************************************************)
(* path.posix.normalize, as mountToLinuxInstance calls it on               *)
(* mount.location.  A path is a sequence of one-character strings.  The    *)
(* definitions follow Node's implementation: normalizeString walks the     *)
(* '/'-separated segments, drops empty and "." segments, lets ".." remove  *)
(* the segment before it, and normalize re-attaches the leading and the    *)
(* trailing separator.                                                     *)
(***************************************************************************)
SEP == "/"
DOT == "."

\* The segments between separators ("a//b/" gives a, "", b, "").
RECURSIVE SplitPath(_)
SplitPath(p) ==
    IF \A i \in 1..Len(p) : p[i] # SEP THEN <<p>>
    ELSE LET k == CHOOSE i \in 1..Len(p) :
                      p[i] = SEP /\ \A j \in 1..(i - 1) : p[j] # SEP
         IN  <<SubSeq(p, 1, k - 1)>> \o SplitPath(SubSeq(p, k + 1, Len(p)))

\* One step of normalizeString's loop: res is the list of segments kept so far.
NormalizeStep(res, seg, allowAboveRoot) ==
    IF seg = <<>> \/ seg = <<DOT>> THEN res
    ELSE IF seg = <<DOT, DOT>>
         THEN IF res # <<>> /\ res[Len(res)] # <<DOT, DOT>>
              THEN SubSeq(res, 1, Len(res) - 1)
              ELSE IF allowAboveRoot THEN Append(res, seg) ELSE res
    ELSE Append(res, seg)

RECURSIVE NormalizeString(_, _, _)
NormalizeString(res, segs, allowAboveRoot) ==
    IF segs = <<>> THEN res
    ELSE NormalizeString(NormalizeStep(res, Head(segs), allowAboveRoot),
                         Tail(segs), allowAboveRoot)

RECURSIVE JoinPath(_)
JoinPath(segs) ==
    IF segs = <<>> THEN <<>>
    ELSE IF Len(segs) = 1 THEN segs[1]
    ELSE segs[1] \o <<SEP>> \o JoinPath(Tail(segs))

\* A mutation of Normalize: the trailing separator is dropped.
NormalizeStripTrailing(p) ==
    IF p = <<>> THEN <<DOT>>
    ELSE LET isAbsolute == p[1] = SEP
             body == JoinPath(NormalizeString(<<>>, SplitPath(p), ~isAbsolute))
         IN  IF body = <<>>
             THEN (IF isAbsolute THEN <<SEP>> ELSE <<DOT>>)
             ELSE (IF isAbsolute THEN <<SEP>> ELSE <<>>) \o body

Normalize(p) ==
    IF p = <<>> THEN <<DOT>>
    ELSE LET isAbsolute == p[1] = SEP
             trailingSeparator == p[Len(p)] = SEP
             body == JoinPath(NormalizeString(<<>>, SplitPath(p), ~isAbsolute))
         IN  IF body = <<>>
             THEN (IF isAbsolute THEN <<SEP>>
                   ELSE IF trailingSeparator THEN <<DOT, SEP>> ELSE <<DOT>>)
             ELSE (IF isAbsolute THEN <<SEP>> ELSE <<>>)
                  \o body
                  \o (IF trailingSeparator THEN <<SEP>> ELSE <<>>)

\* The text of a path.
PathText(p) == Concat(p)

(***************************************************************************)
(* MountPermissionsHelper.toLinuxMountOption lives in                      *)
(* ./mount-permissions-helper, which is not among the sources: it is       *)
(* modelled from the specification (section 4.1) and the tests 'defaults'  *)
(* and 'readonly mount'.  An undefined permission is READWRITE.            *)
(***************************************************************************)
READONLY == "READONLY"
READWRITE == "READWRITE"
MountPermissions == {READONLY, READWRITE}

toLinuxMountOption(permission) ==
    LET p == IF IsSome(permission) THEN permission[1] ELSE READWRITE
    IN  IF p = READWRITE THEN "rw" ELSE "r"

(***************************************************************************)
(* The options token of mountToLinuxInstance (mountable-nfs.ts:84-88,      *)
(* part_001:138-142): the permission flag, then the extra options when     *)
(* the property is given, joined by commas.                                *)
(***************************************************************************)
\* Mutations: the extras come first; the permission is not passed on.
MountOptionsExtrasFirst(permissions, extraMountOptions) ==
    (IF IsSome(extraMountOptions) THEN extraMountOptions[1] ELSE <<>>)
    \o <<toLinuxMountOption(permissions)>>

MountOptionsNoPermission(permissions, extraMountOptions) ==
    <<toLinuxMountOption(None)>>
    \o (IF IsSome(extraMountOptions) THEN extraMountOptions[1] ELSE <<>>)

MountOptions(permissions, extraMountOptions) ==
    <<toLinuxMountOption(permissions)>>
    \o (IF IsSome(extraMountOptions) THEN extraMountOptions[1] ELSE <<>>)

MountOptionsStr(permissions, extraMountOptions) ==
    Join(MountOptions(permissions, extraMountOptions), ",")

(***************************************************************************)
(* The world the constructs are defined in: two stacks, the instances      *)
(* that filesystems are mounted on, and a VPC.                             *)
(***************************************************************************)
Stacks == {"Stack1", "Stack2"}

LINUX == "LINUX"
WINDOWS == "WINDOWS"
Targets == {"Instance", "WindowsInstance"}
OsType(target) == IF target = "WindowsInstance" THEN WINDOWS ELSE LINUX

SERVER == "NFS/Server"
Hosts == Targets \cup {SERVER}
GrantPrincipal(host) == host \o "/InstanceRole"

LUSTRE == "LustreFileSystem"
LustreDefaultPort == "LustreFileSystem.connections.defaultPort"

\* A boot command: the text the code renders, tagged with what it is.
Cmd(kind, text) == [kind |-> kind, text |-> text]
Kinds(cmds) == [i \in 1..Len(cmds) |-> cmds[i].kind]
Texts(cmds) == [i \in 1..Len(cmds) |-> cmds[i].text]

\* Asset.bucket.bucketName and Asset.s3ObjectKey are unresolved tokens.
AssetBucket(handle) == "${Token[asset" \o ToString(handle) \o ".bucket]}"
AssetKey(handle) == "${Token[asset" \o ToString(handle) \o ".key]}"
AssetSource(handle) == "s3://" \o AssetBucket(handle) \o "/" \o AssetKey(handle)

\* UserData.addS3DownloadCommand: the local path it returns, the commands it adds.
S3LocalPath(handle) == "/tmp/" \o AssetKey(handle)
\* A mutation: no download is added.
addS3DownloadCommandNone(handle) == <<>>
addS3DownloadCommand(handle) ==
    << Cmd("download_dir", "mkdir -p $(dirname '" \o S3LocalPath(handle) \o "')"),
       Cmd("download", "aws s3 cp '" \o AssetSource(handle) \o "' '"
                       \o S3LocalPath(handle) \o "'") >>

(***************************************************************************)
(* mountAssetSingleton (mountable-nfs.ts:103-111, part_001:158-166):       *)
(* stack.node.tryFindChild(uniqueId) ?? new Asset(stack, uniqueId, ...).   *)
(* The result names the handle and says whether it was created.            *)
(***************************************************************************)
NfsAssetId == "MountableNfsAsset" \o "e76885c2b1c348288aaaeda91e2e60f0"
LustreAssetId == "MountableFsxLustreAsset" \o "0db888da59014948aaa5e71c541c8060"

tryFindChild(scope, id) == {c \in children : c.scope = scope /\ c.id = id}

\* A mutation: the asset is created on every call.
mountAssetAlwaysNew(stack, uniqueId) ==
    [handle |-> nextHandle, created |-> TRUE]

mountAssetSingleton(stack, uniqueId) ==
    LET found == tryFindChild(stack, uniqueId)
    IN  IF found # {}
        THEN [handle |-> (CHOOSE c \in found : TRUE).handle, created |-> FALSE]
        ELSE [handle |-> nextHandle, created |-> TRUE]

\* The linux-only check of mountToLinuxInstance, and a mutation without it.
IsLinuxUnchecked(target) == TRUE
IsLinux(target) == OsType(target) = LINUX

LinuxOnlyError == "Target instance must be Linux."

(***************************************************************************)
(* enum LinuxDistribution (part_001:36-69) and                             *)
(* getLustreClientInstallationCommands (part_001:173-247).  The result is  *)
(* the command list, or the error the switch's default branch throws.      *)
(***************************************************************************)
AMAZON_LINUX == 0
AMAZON_LINUX_2 == 1
UBUNTU_18_04 == 11
SUSE_LINUX_12_SP5 == 15
LinuxDistribution == AMAZON_LINUX..SUSE_LINUX_12_SP5

createIsKernelVersionLowerFunc ==
    Join(<< "function is_kernel_version_lower() {",
            "  local IFS=$3",
            "  read -r -a lhs_array <<< \"$1\"",
            "  read -r -a rhs_array <<< \"$2\"",
            "  if [ ${#lhs_array[@]} -ne ${#rhs_array[@]} ]; then",
            "    echo \"ERROR: Kernel version lengths do not match: $1 $2\"",
            "    exit 1",
            "  fi",
            "  for i in ${!lhs_array[@]}; do",
            "    local lhs=\"${lhs_array[$i]}\"",
            "    local rhs=\"${rhs_array[$i]}\"",
            "    if [[ $lhs =~ ^[0-9]+$ && $rhs =~ ^[0-9]+$ && $lhs -lt $rhs ]]; then",
            "      return 0",
            "    fi",
            "  done",
            "  return 1",
            "}" >>, "\n")

al2X86KernelPattern == "^[0-9]+\\.[0-9]+\\.[0-9]+-[0-9]+\\.[0-9]+\\.amzn2\\.x86_64$"
al2GravitonKernelPattern == "^[0-9]+\\.[0-9]+\\.[0-9]+-[0-9]+\\.[0-9]+\\.amzn2\\.aarch64$"

NotSupportedError(distribution) ==
    "Linux distribution " \o ToString(distribution) \o " is not currently not supported"

\* A mutation: the switch's default returns no commands instead of throwing.
getLustreClientInstallationCommandsNoThrow(distribution) ==
    [error |-> "", commands |-> <<>>]

getLustreClientInstallationCommands(distribution) ==
    IF distribution = AMAZON_LINUX_2
    THEN [error |-> "",
          commands |->
            << Cmd("install", createIsKernelVersionLowerFunc),
               Cmd("install", "set -x"),
               Cmd("install", "KERNEL_VERSION=$(uname -r)"),
               Cmd("install", "if [[ \"$KERNEL_VERSION\" =~ " \o al2X86KernelPattern \o " ]]; then"),
               Cmd("install", "  MIN_VER=\"4.14.104-95.84.amzn2.x86_64\""),
               Cmd("install", "elif [[ \"$KERNEL_VERSION\" =~ " \o al2GravitonKernelPattern \o " ]]; then"),
               Cmd("install", "  MIN_VER=\"4.14.181-142.260.amzn2.aarch64\""),
               Cmd("install", "else"),
               Cmd("install", "  echo \"Not on Amazon Linux 2. Exiting...\"; exit 1"),
               Cmd("install", "fi"),
               Cmd("install", "if is_kernel_version_lower $KERNEL_VERSION $MIN_VER \".-\"; then"),
               Cmd("install", "  sudo yum -y update kernel && sudo reboot"),
               Cmd("install", "fi"),
               Cmd("install", "sudo amazon-linux-extras install -y lustre2.10") >>]
    ELSE [error |-> NotSupportedError(distribution), commands |-> <<>>]

(***************************************************************************)
(* The commands mountToLinuxInstance passes to target.userData.addCommands *)
(* (mountable-nfs.ts:83-97, part_001:137-152).  mountScript is the local   *)
(* path addS3DownloadCommand returned.                                     *)
(***************************************************************************)
\* A mutation: the archive is removed before the script has run.
NfsMountCommandsRemoveEarly(mountScript, fullHostname, serverLocation, mount, extraMountOptions) ==
    LET mountDir == Normalize(mount.location)
        mountOptionsStr == MountOptionsStr(mount.permissions, extraMountOptions)
    IN  << Cmd("mktemp", "TMPDIR=$(mktemp -d)"),
           Cmd("pushd", "pushd \"$TMPDIR\""),
           Cmd("unzip", "unzip " \o mountScript),
           Cmd("rm", "rm -f " \o mountScript),
           Cmd("mount", "bash ./mountNfs.sh " \o fullHostname \o " " \o serverLocation
                        \o " " \o PathText(mountDir) \o " " \o mountOptionsStr),
           Cmd("popd", "popd") >>

NfsMountCommands(mountScript, fullHostname, serverLocation, mount, extraMountOptions) ==
    LET mountDir == Normalize(mount.location)
        mountOptionsStr == MountOptionsStr(mount.permissions, extraMountOptions)
    IN  << Cmd("mktemp", "TMPDIR=$(mktemp -d)"),
           Cmd("pushd", "pushd \"$TMPDIR\""),
           Cmd("unzip", "unzip " \o mountScript),
           Cmd("mount", "bash ./mountNfs.sh " \o fullHostname \o " " \o serverLocation
                        \o " " \o PathText(mountDir) \o " " \o mountOptionsStr),
           Cmd("popd", "popd"),
           Cmd("rm", "rm -f " \o mountScript) >>

LustreFileSystemId == "${Token[LustreFileSystem.fileSystemId]}"
LustreMountName == "${Token[LustreFileSystem.mountName]}"

\* Defined only when the installation commands are: the caller checks the error.
LustreMountCommands(mountScript, distribution, mount, extraMountOptions) ==
    LET mountDir == Normalize(mount.location)
        mountOptionsStr == MountOptionsStr(mount.permissions, extraMountOptions)
    IN  getLustreClientInstallationCommands(distribution).commands
        \o << Cmd("mktemp", "TMPDIR=$(mktemp -d)"),
              Cmd("pushd", "pushd \"$TMPDIR\""),
              Cmd("unzip", "unzip " \o mountScript),
              Cmd("mount", "bash ./mountFsxLustre.sh " \o LustreFileSystemId \o " "
                           \o PathText(mountDir) \o " " \o LustreMountName
                           \o " " \o mountOptionsStr),
              Cmd("popd", "popd"),
              Cmd("rm", "rm -f " \o mountScript) >>

(***************************************************************************)
(* NfsInstance (part_002:280-494).                                         *)
(***************************************************************************)
NfsPort == 2049

\* props.vpc: the subnets of the VPC, in the order selectSubnets returns them.
VpcSubnetList ==
    << [id |-> "PublicSubnet1",  type |-> "Public",  az |-> "az1"],
       [id |-> "PrivateSubnet1", type |-> "Private", az |-> "az1"],
       [id |-> "PrivateSubnet2", type |-> "Private", az |-> "az2"] >>

\* props.vpcSubnets: undefined, or an object with optional subnetType and
\* availabilityZones.
Selection(subnetType, availabilityZones) ==
    Some([subnetType |-> subnetType, availabilityZones |-> availabilityZones])

SubnetSelections ==
    { None,
      Selection(Some("Private"), None),
      Selection(Some("Isolated"), None),
      Selection(Some("Private"), Some(<<"dummy zone">>)) }

\* Vpc.selectSubnets: the subnets of the selected type (private by default)
\* in the selected availability zones.
selectSubnets(vpcSubnets) ==
    LET wantType == IF IsSome(vpcSubnets) /\ IsSome(vpcSubnets[1].subnetType)
                    THEN vpcSubnets[1].subnetType[1] ELSE "Private"
        Matches(s) ==
            /\ s.type = wantType
            /\ \/ ~IsSome(vpcSubnets)
               \/ ~IsSome(vpcSubnets[1].availabilityZones)
               \/ \E i \in 1..Len(vpcSubnets[1].availabilityZones[1]) :
                      vpcSubnets[1].availabilityZones[1][i] = s.az
    IN  SelectSeq(VpcSubnetList, Matches)

\* JSON.stringify(props.vpcSubnets) inside a template literal.
Quoted(s) == "\"" \o s \o "\""
RECURSIVE QuotedAll(_)
QuotedAll(ss) == IF ss = <<>> THEN <<>> ELSE <<Quoted(Head(ss))>> \o QuotedAll(Tail(ss))
JsonStringify(vpcSubnets) ==
    IF ~IsSome(vpcSubnets) THEN "undefined"
    ELSE LET sel == vpcSubnets[1]
             members ==
                 (IF IsSome(sel.subnetType)
                  THEN <<Quoted("subnetType") \o ":" \o Quoted(sel.subnetType[1])>>
                  ELSE <<>>)
                 \o (IF IsSome(sel.availabilityZones)
                     THEN <<Quoted("availabilityZones") \o ":["
                            \o Join(QuotedAll(sel.availabilityZones[1]), ",") \o "]">>
                     ELSE <<>>)
         IN  "{" \o Join(members, ",") \o "}"

NoSubnetsError(vpcSubnets) ==
    "Did not find any subnets matching " \o JsonStringify(vpcSubnets)
    \o ". Please use a different selection."

HasNoSubnets(subnets) == Len(subnets) = 0

\* UserData.addCommands(...commands) on a buffer of boot commands, and a
\* mutation that puts the new commands in front of the buffer.
addCommandsInFront(lines, commands) == commands \o lines
addCommands(lines, commands) == lines \o commands

\* A mutation: the file is executed without its arguments.
addExecuteFileCommandNoArguments(kind, filePath, arguments) ==
    << Cmd("exec_mode", "set -e"),
       Cmd("exec_mode", "chmod +x '" \o filePath \o "'"),
       Cmd(kind, "'" \o filePath \o "'") >>

\* UserData.addExecuteFileCommand
addExecuteFileCommand(kind, filePath, arguments) ==
    << Cmd("exec_mode", "set -e"),
       Cmd("exec_mode", "chmod +x '" \o filePath \o "'"),
       Cmd(kind, "'" \o filePath \o "' " \o arguments) >>

\* UserData.addSignalOnExitCommand(autoscalingGroup): a line of the exit trap.
SignalOnExitCommand ==
    Cmd("signal_on_exit",
        "/opt/aws/bin/cfn-signal --stack Stack --resource ${Token[Server.Asg]}"
        \o " --region ${Token[AWS.Region]} -e $exitCode"
        \o " || echo 'Failed to send Cloudformation Signal'")

\* CloudWatchAgent (./cloudwatch-agent, not among the sources): the commands
\* the test 'configures cloudwatch agent' expects.
CloudWatchAgentCommands(handle) ==
    << Cmd("log_shipping", "mkdir -p $(dirname '" \o S3LocalPath(handle) \o "')"),
       Cmd("log_shipping", "aws s3 cp '" \o AssetSource(handle) \o "' '"
                           \o S3LocalPath(handle) \o "'"),
       Cmd("log_shipping", "set -e"),
       Cmd("log_shipping", "chmod +x '" \o S3LocalPath(handle) \o "'"),
       Cmd("log_shipping", "'" \o S3LocalPath(handle)
                           \o "' -i ${Token[AWS.Region]} ${Token[SsmParameter]}") >>

\* MountableBlockVolume.mountToLinuxInstance (./mountable-ebs, not among the
\* sources): the commands the test 'mounts ebs volume' expects.
VolumeMountCommands(handle, volumeFormat, location) ==
    << Cmd("volume_mount", "mkdir -p $(dirname '" \o S3LocalPath(handle) \o "')"),
       Cmd("volume_mount", "aws s3 cp '" \o AssetSource(handle) \o "' '"
                           \o S3LocalPath(handle) \o "'"),
       Cmd("volume_mount", "TMPDIR=$(mktemp -d)"),
       Cmd("volume_mount", "pushd \"$TMPDIR\""),
       Cmd("volume_mount", "unzip " \o S3LocalPath(handle)),
       Cmd("volume_mount", "bash ./mountEbsBlockVolume.sh ${Token[Volume.volumeId]} "
                           \o volumeFormat \o " " \o PathText(location) \o " rw \"\""),
       Cmd("volume_mount", "popd"),
       Cmd("volume_mount", "rm -f " \o S3LocalPath(handle)) >>

\* configureNfsServer
NfsServerCommands ==
    << Cmd("nfs_service", "sudo yum install -y nfs-utils nfs-utils-lib"),
       Cmd("nfs_service", "sudo service nfs start"),
       Cmd("nfs_service", "sudo chkconfig --level 35 nfs on") >>

\* The statements of the constructor that write to the server's boot script
\* (part_002:399-410), in the order they run; each names the buffer it
\* appends to: the script lines or the lines of the exit trap.
BootStep(buffer, commands) == [buffer |-> buffer, commands |-> commands]

\* A mutation: the log shipping is configured after the NFS service.
NfsInstanceBootStepsLogsLate(cloudWatchAsset, volumeAsset, exportAsset, volumeFormat, location) ==
    << BootStep("lines", << Cmd("shell_mode", "set -xefuo pipefail") >>),
       BootStep("onExit", << SignalOnExitCommand >>),
       BootStep("lines", VolumeMountCommands(volumeAsset, volumeFormat, location)),
       BootStep("lines", NfsServerCommands),
       BootStep("lines", CloudWatchAgentCommands(cloudWatchAsset)),
       BootStep("lines", addS3DownloadCommand(exportAsset)) >>

NfsInstanceBootSteps(cloudWatchAsset, volumeAsset, exportAsset, volumeFormat, location) ==
    << BootStep("lines", << Cmd("shell_mode", "set -xefuo pipefail") >>),
       BootStep("onExit", << SignalOnExitCommand >>),
       BootStep("lines", CloudWatchAgentCommands(cloudWatchAsset)),
       BootStep("lines", VolumeMountCommands(volumeAsset, volumeFormat, location)),
       BootStep("lines", NfsServerCommands),
       BootStep("lines", addS3DownloadCommand(exportAsset)) >>

\* The commands the steps append to one buffer, in order.
RECURSIVE StepCommands(_, _)
StepCommands(steps, buffer) ==
    IF steps = <<>> THEN <<>>
    ELSE (IF Head(steps).buffer = buffer THEN Head(steps).commands ELSE <<>>)
         \o StepCommands(Tail(steps), buffer)

\* this.fullHostname = `${props.hostname}.${props.dnsZone.zoneName}`, and a
\* mutation that leaves the zone out.
FullHostnameWithoutZone(hostname, zoneName) == hostname
FullHostname(hostname, zoneName) == hostname \o "." \o zoneName

\* The constructs a successful construction creates under the new NfsInstance,
\* in creation order; the volume only when props.volume.volume is not given.
ResourceTypes ==
    {"StaticPrivateIpServer", "ARecord", "Volume", "LogGroup", "CloudWatchAgent", "Asset"}

NfsInstanceChildren(id, volumeGiven) ==
    << [scope |-> id, id |-> "Server", type |-> "StaticPrivateIpServer"],
       [scope |-> id, id |-> "ARecord", type |-> "ARecord"] >>
    \o (IF volumeGiven THEN <<>>
        ELSE << [scope |-> id, id |-> "Volume", type |-> "Volume"] >>)
    \o << [scope |-> id, id |-> "NfsInstanceLogGroupWrapper", type |-> "LogGroup"],
          [scope |-> id, id |-> "NfsInstanceLogsConfig", type |-> "CloudWatchAgent"],
          [scope |-> id, id |-> "CloudWatchConfigurationScriptAsset", type |-> "Asset"],
          [scope |-> id, id |-> "MountableBlockVolumeAsset", type |-> "Asset"],
          [scope |-> id, id |-> "ExportNfsDirectoryAsset", type |-> "Asset"] >>

\* The constructs created before the subnet check of part_002:355 (none), and
\* a mutation that makes the check after the server is created.
ServerBeforeSubnetCheck(id) ==
    << [scope |-> id, id |-> "Server", type |-> "StaticPrivateIpServer"] >>
CreatedBeforeSubnetCheck(id) == <<>>

\* The children with their object identities: base, base + 1, ...
WithHandles(cs, base) ==
    { [scope |-> cs[i].scope, id |-> cs[i].id, type |-> cs[i].type,
       handle |-> base + i - 1] : i \in 1..Len(cs) }

HandleOf(cs, base, id) ==
    base - 1 + CHOOSE i \in 1..Len(cs) : cs[i].id = id

(***************************************************************************)
(* Inputs of the operations.                                               *)
(***************************************************************************)
NfsScopeStack == "Stack1"
Hostname == "hostname"
ZoneName == "zoneName"
\* "/mnt/nfs"
ServerMount ==
    [location |-> <<"/", "m", "n", "t", "/", "n", "f", "s">>, permissions |-> Some(READWRITE)]

\* "/mnt/nfs/fs1" and "/mnt//fs2/"
\* A call's mount argument and the extraMountOptions of the object it is made on.
MountInputs ==
    { [location |-> <<"/", "m", "n", "t", "/", "n", "f", "s", "/", "f", "s", "1">>,
       permissions |-> None, extraMountOptions |-> None],
      [location |-> <<"/", "m", "n", "t", "/", "/", "f", "s", "2", "/">>,
       permissions |-> Some(READONLY),
       extraMountOptions |-> Some(<<"soft", "rsize=4096">>)] }
MountDistributions == {AMAZON_LINUX_2, UBUNTU_18_04}

ShareClients == {"10.0.0.0/24", "client-a"}
DefaultNfsOptions == <<"rw", "sync", "no_subtree_check", "insecure">>
ShareOptionInputs == {None, Some(<<"ro", "sync">>)}
SecurityGroupInputs == {<<>>, <<"sg-1">>, <<"sg-1", "sg-2">>}

(***************************************************************************)
(* The state before any construct is defined.                              *)
(***************************************************************************)
NoNfs ==
    [built |-> FALSE, id |-> "", stack |-> "", mount |-> [location |-> <<>>, permissions |-> None],
     port |-> 0, fullHostname |-> "", exportNfsDirectoryScriptPath |-> "",
     subnet |-> ""]

NoCall == [op |-> "", target |-> "", error |-> ""]
NoProbe == [phase |-> "off"]
NoScript == [pc |-> "off"]

InitModel ==
    /\ children = {}
    /\ nextHandle = 1
    /\ userData = [h \in Hosts |-> <<>>]
    /\ onExitLines = [h \in Hosts |-> <<>>]
    /\ ingress = {}
    /\ grants = {}
    /\ nfs = NoNfs
    /\ exports = <<>>
    /\ securityGroups = <<>>
    /\ lookups = <<>>
    /\ lastCall = NoCall
    /\ nCalls = 0
    /\ nConstructs = 0

Init == InitModel /\ probe = NoProbe /\ script = NoScript

(***************************************************************************)
(* new NfsInstance(scope, id, props)  (part_002:347-426)                   *)
(***************************************************************************)
NfsInstanceOp == "new NfsInstance"

NfsInstanceConstruct(vpcSubnets, volumeGiven) ==
    LET id == "NFS" \o ToString(nConstructs + 1)
        self == [scope |-> NfsScopeStack, id |-> id, type |-> "NfsInstance",
                 handle |-> nextHandle]
        subnets == selectSubnets(vpcSubnets)
        made == NfsInstanceChildren(id, volumeGiven)
        base == nextHandle + 1
        volumeFormat == "xfs"
        exportAsset == HandleOf(made, base, "ExportNfsDirectoryAsset")
        steps == NfsInstanceBootSteps(
                     HandleOf(made, base, "CloudWatchConfigurationScriptAsset"),
                     HandleOf(made, base, "MountableBlockVolumeAsset"),
                     exportAsset, volumeFormat, ServerMount.location)
    IN  /\ ~nfs.built
        /\ nCalls < MaxCalls
        /\ nCalls' = nCalls + 1
        /\ nConstructs' = nConstructs + 1
        /\ IF HasNoSubnets(subnets)
           THEN \* super(scope, id) has registered the construct; nothing else exists
                /\ children' = children \cup {self}
                                \cup WithHandles(CreatedBeforeSubnetCheck(id), base)
                /\ nextHandle' = base + Len(CreatedBeforeSubnetCheck(id))
                /\ lastCall' = [op |-> NfsInstanceOp, target |-> id,
                                error |-> NoSubnetsError(vpcSubnets),
                                vpcSubnets |-> vpcSubnets]
                /\ UNCHANGED <<userData, onExitLines, ingress, grants, nfs, exports>>
           ELSE /\ children' = children \cup {self} \cup WithHandles(made, base)
                /\ nextHandle' = base + Len(made)
                /\ userData' = [userData EXCEPT ![SERVER] =
                       addCommands(@, StepCommands(steps, "lines"))]
                /\ onExitLines' = [onExitLines EXCEPT ![SERVER] =
                       addCommands(@, StepCommands(steps, "onExit"))]
                /\ grants' = grants \cup
                       { [asset |-> HandleOf(made, base, a), principal |-> GrantPrincipal(SERVER)] :
                             a \in {"CloudWatchConfigurationScriptAsset",
                                    "MountableBlockVolumeAsset"} }
                /\ nfs' = [built |-> TRUE, id |-> id, stack |-> NfsScopeStack,
                           mount |-> ServerMount,
                           port |-> NfsPort,
                           fullHostname |-> FullHostname(Hostname, ZoneName),
                           exportNfsDirectoryScriptPath |-> S3LocalPath(exportAsset),
                           subnet |-> subnets[1].id]
                /\ exports' = <<>>
                /\ lastCall' = [op |-> NfsInstanceOp, target |-> id, error |-> "",
                                vpcSubnets |-> vpcSubnets, steps |-> steps]
                /\ UNCHANGED ingress
        /\ UNCHANGED <<securityGroups, lookups, probe, script>>

(***************************************************************************)
(* NfsInstance.share(client, nfsOptions)  (part_002:433-443)               *)
(***************************************************************************)
\* Mutations: an export to a client already in the list is dropped; the
\* newest export is put first.
ShareRecordsNewestFirst(exps, client, nfsOptions) ==
    <<[client |-> client, nfsOptions |-> nfsOptions]>> \o exps

ShareRecordsDeduplicated(exps, client, nfsOptions) ==
    IF \E i \in 1..Len(exps) : exps[i].client = client
    THEN exps
    ELSE Append(exps, [client |-> client, nfsOptions |-> nfsOptions])

ShareRecords(exps, client, nfsOptions) ==
    Append(exps, [client |-> client, nfsOptions |-> nfsOptions])

\* A mutation: the client comes before the location.
ShareArgumentsClientFirst(location, client, nfsOptions) ==
    Quoted(client) \o " " \o Quoted(PathText(location)) \o " "
    \o Quoted(Join(nfsOptions, ","))

\* `${nfsOptions}`: Array.prototype.toString joins with commas.
ShareArguments(location, client, nfsOptions) ==
    Quoted(PathText(location)) \o " " \o Quoted(client) \o " "
    \o Quoted(Join(nfsOptions, ","))

ShareOp == "NfsInstance.share"

Share(client, nfsOptionsArg) ==
    LET nfsOptions == IF IsSome(nfsOptionsArg) THEN nfsOptionsArg[1] ELSE DefaultNfsOptions
    IN  /\ nfs.built
        /\ nCalls < MaxCalls
        /\ nCalls' = nCalls + 1
        /\ exports' = ShareRecords(exports, client, nfsOptions)
        /\ userData' = [userData EXCEPT ![SERVER] =
               addCommands(@, addExecuteFileCommand("export",
                                  nfs.exportNfsDirectoryScriptPath,
                                  ShareArguments(nfs.mount.location, client, nfsOptions)))]
        /\ lastCall' = [op |-> ShareOp, target |-> SERVER, error |-> "",
                        client |-> client, nfsOptions |-> nfsOptionsArg]
        /\ UNCHANGED <<children, nextHandle, onExitLines, ingress, grants, nfs,
                       securityGroups, lookups, nConstructs, probe, script>>

(***************************************************************************)
(* NfsInstance.addSecurityGroup(...securityGroups)  (part_002:448-450)     *)
(***************************************************************************)
AddSecurityGroupOp == "NfsInstance.addSecurityGroup"

AddSecurityGroup(groups) ==
    /\ nfs.built
    /\ nCalls < MaxCalls
    /\ nCalls' = nCalls + 1
    /\ securityGroups' = securityGroups \o groups
    /\ lastCall' = [op |-> AddSecurityGroupOp, target |-> SERVER, error |-> ""]
    /\ UNCHANGED <<children, nextHandle, userData, onExitLines, ingress, grants, nfs,
                   exports, lookups, nConstructs, probe, script>>

(***************************************************************************)
(* The steps mountToLinuxInstance shares between the two filesystems:      *)
(* target.connections.allowTo, mountAssetSingleton, asset.grantRead.       *)
(***************************************************************************)
PortTcp(port) == "tcp:" \o ToString(port)

\* A mutation: the call authorizes nothing.
AllowToNothing(target, filesystem, port) == ingress' = ingress

AllowTo(target, filesystem, port) ==
    ingress' = ingress \cup {[from |-> target, to |-> filesystem, port |-> port]}

ResolveAsset(stack, uniqueId, asset, target) ==
    /\ children' = IF asset.created
                   THEN children \cup {[scope |-> stack, id |-> uniqueId,
                                        type |-> "Asset", handle |-> asset.handle]}
                   ELSE children
    /\ nextHandle' = IF asset.created THEN nextHandle + 1 ELSE nextHandle
    /\ lookups' = Append(lookups, [stack |-> stack, id |-> uniqueId, handle |-> asset.handle])
    /\ grants' = grants \cup {[asset |-> asset.handle, principal |-> GrantPrincipal(target)]}

(***************************************************************************)
(* MountableNfs.mountToLinuxInstance(target, mount)                        *)
(* (mountable-nfs.ts:69-98).  scope and extraMountOptions are the fields   *)
(* of the MountableNfs object; its filesystem is the NfsInstance.          *)
(***************************************************************************)
NfsMountOp == "MountableNfs.mountToLinuxInstance"

\* target.userData: the buffer the mount commands go to; and a mutation that
\* writes them to the server's buffer.
MountBufferOfServer(target) == SERVER
MountBuffer(target) == target

MountNfs(scope, extraMountOptions, target, mount) ==
    LET asset == mountAssetSingleton(scope, NfsAssetId)
        mountScript == S3LocalPath(asset.handle)
    IN  /\ nfs.built
        /\ nCalls < MaxCalls
        /\ nCalls' = nCalls + 1
        /\ IF ~IsLinux(target)
           THEN /\ lastCall' = [op |-> NfsMountOp, target |-> target,
                                error |-> LinuxOnlyError]
                /\ UNCHANGED <<children, nextHandle, userData, ingress, grants, lookups>>
           ELSE /\ AllowTo(target, nfs.id, PortTcp(nfs.port))
                /\ ResolveAsset(scope, NfsAssetId, asset, target)
                /\ userData' = [userData EXCEPT ![MountBuffer(target)] =
                       addCommands(addCommands(@, addS3DownloadCommand(asset.handle)),
                           NfsMountCommands(mountScript, nfs.fullHostname,
                               PathText(nfs.mount.location), mount, extraMountOptions))]
                /\ lastCall' = [op |-> NfsMountOp, target |-> target, error |-> ""]
        /\ UNCHANGED <<onExitLines, nfs, exports, securityGroups, nConstructs, probe, script>>

(***************************************************************************)
(* MountableFsxLustre.mountToLinuxInstance(target, mount)                  *)
(* (part_001:123-153).  The arguments of addCommands are evaluated after   *)
(* allowTo, grantRead and addS3DownloadCommand have run, so the error of   *)
(* getLustreClientInstallationCommands is thrown after them.               *)
(***************************************************************************)
LustreMountOp == "MountableFsxLustre.mountToLinuxInstance"

MountLustre(scope, distribution, extraMountOptions, target, mount) ==
    LET asset == mountAssetSingleton(scope, LustreAssetId)
        mountScript == S3LocalPath(asset.handle)
        install == getLustreClientInstallationCommands(distribution)
    IN  /\ nCalls < MaxCalls
        /\ nCalls' = nCalls + 1
        /\ IF ~IsLinux(target)
           THEN /\ lastCall' = [op |-> LustreMountOp, target |-> target,
                                error |-> LinuxOnlyError]
                /\ UNCHANGED <<children, nextHandle, userData, ingress, grants, lookups>>
           ELSE /\ AllowTo(target, LUSTRE, LustreDefaultPort)
                /\ ResolveAsset(scope, LustreAssetId, asset, target)
                /\ IF install.error # ""
                   THEN /\ userData' = [userData EXCEPT ![target] =
                               addCommands(@, addS3DownloadCommand(asset.handle))]
                        /\ lastCall' = [op |-> LustreMountOp, target |-> target,
                                        error |-> install.error]
                   ELSE /\ userData' = [userData EXCEPT ![target] =
                               addCommands(
                                   addCommands(@, addS3DownloadCommand(asset.handle)),
                                   LustreMountCommands(mountScript, distribution,
                                                       mount, extraMountOptions))]
                        /\ lastCall' = [op |-> LustreMountOp, target |-> target,
                                        error |-> ""]
        /\ UNCHANGED <<onExitLines, nfs, exports, securityGroups, nConstructs, probe, script>>

(***************************************************************************)
(* The specification of the definition-time API.                           *)
(***************************************************************************)
Next ==
    \/ \E sel \in SubnetSelections, volumeGiven \in BOOLEAN :
           NfsInstanceConstruct(sel, volumeGiven)
    \/ \E client \in ShareClients, options \in ShareOptionInputs :
           Share(client, options)
    \/ \E groups \in SecurityGroupInputs :
           AddSecurityGroup(groups)
    \/ \E scope \in Stacks, target \in Targets, mount \in MountInputs :
           MountNfs(scope, mount.extraMountOptions, target, mount)
    \/ \E scope \in Stacks, distribution \in MountDistributions,
          target \in Targets, mount \in MountInputs :
           MountLustre(scope, distribution, mount.extraMountOptions, target, mount)

Spec == Init /\ [][Next]_vars

(***************************************************************************)
(* The argument construction of mountToLinuxInstance as a pure function:   *)
(* the inputs are drawn from bounded sets and the one action applies the   *)
(* definitions the mount actions use.                                      *)
(***************************************************************************)
PathChars == {SEP, DOT, "a"}
Paths == SeqsUpTo(PathChars, MaxPathLen)
PermissionInputs == {None} \cup {Some(p) : p \in MountPermissions}
ExtraOptionNames == {"soft", "rsize=4096"}
ExtraInputs == {None} \cup {Some(e) : e \in SeqsUpTo(ExtraOptionNames, MaxExtras)}

ProbeMountScript == "/tmp/mountScript.zip"
ProbeHostname == FullHostname(Hostname, ZoneName)

InitPure ==
    /\ InitModel
    /\ script = NoScript
    /\ probe \in { [phase |-> "in", location |-> l, permissions |-> p,
                    extraMountOptions |-> e] :
                       l \in Paths, p \in PermissionInputs, e \in ExtraInputs }

RenderMountArguments ==
    /\ probe.phase = "in"
    /\ probe' =
         [phase |-> "out",
          location |-> probe.location,
          permissions |-> probe.permissions,
          extraMountOptions |-> probe.extraMountOptions,
          mountDir |-> Normalize(probe.location),
          mountOptions |-> MountOptions(probe.permissions, probe.extraMountOptions),
          mountOptionsStr |-> MountOptionsStr(probe.permissions, probe.extraMountOptions),
          nfsCommands |-> NfsMountCommands(ProbeMountScript, ProbeHostname,
                              PathText(ServerMount.location),
                              [location |-> probe.location,
                               permissions |-> probe.permissions],
                              probe.extraMountOptions),
          lustreCommands |-> LustreMountCommands(ProbeMountScript, AMAZON_LINUX_2,
                              [location |-> probe.location,
                               permissions |-> probe.permissions],
                              probe.extraMountOptions)]
    /\ UNCHANGED <<children, nextHandle, userData, onExitLines, ingress, grants, nfs,
                   exports, securityGroups, lookups, lastCall, nCalls, nConstructs,
                   script>>

NextPure == RenderMountArguments

SpecPure == InitPure /\ [][NextPure]_vars

(***************************************************************************)
(* The Lustre client installation commands at boot time (part_001:174-216) *)
(* and the is_kernel_version_lower helper they define.                     *)
(*                                                                         *)
(* A version string is a sequence of tokens: numbers, words and the        *)
(* delimiter characters between them ("4.14.104-95.84.amzn2.x86_64" is     *)
(* 4 . 14 . 104 - 95 . 84 . amzn2 . x86_64), so that the split into        *)
(* components and the numeric comparison are computed.                     *)
(***************************************************************************)
MaxComponents == 3

apiVars == <<children, nextHandle, userData, onExitLines, ingress, grants, nfs,
             exports, securityGroups, lookups, lastCall, nCalls, nConstructs>>

Num(n) == [kind |-> "num", text |-> ToString(n), value |-> n]
Word(w) == [kind |-> "word", text |-> w, value |-> 0]
Delim(c) == [kind |-> "delim", text |-> c, value |-> 0]

VersionText(v) == Concat([i \in 1..Len(v) |-> v[i].text])

\* "$3" of the helper as the install commands pass it: ".-"
KernelIFS == {".", "-"}

\* read -r -a array <<< "$1" with IFS=$3: every IFS character ends a field
\* (two in a row give an empty field), and the text after the last one is a
\* field unless it is empty.  field is the text read since the last delimiter.
RECURSIVE ReadArray(_, _, _)
ReadArray(tokens, ifs, field) ==
    IF tokens = <<>> THEN (IF field = <<>> THEN <<>> ELSE <<field>>)
    ELSE IF Head(tokens).kind = "delim" /\ Head(tokens).text \in ifs
    THEN <<field>> \o ReadArray(Tail(tokens), ifs, <<>>)
    ELSE ReadArray(Tail(tokens), ifs, Append(field, Head(tokens)))

\* [[ $x =~ ^[0-9]+$ ]] on a field, and the value -lt compares.
IsNumber(field) == Len(field) = 1 /\ field[1].kind = "num"
NumberOf(field) == field[1].value

\* [[ $lhs =~ ^[0-9]+$ && $rhs =~ ^[0-9]+$ && $lhs -lt $rhs ]]
ComponentLower(lhs, rhs) ==
    IsNumber(lhs) /\ IsNumber(rhs) /\ NumberOf(lhs) < NumberOf(rhs)

LengthsError(lhs, rhs) ==
    "ERROR: Kernel version lengths do not match: "
    \o VersionText(lhs) \o " " \o VersionText(rhs)

\* The outcome of the helper's loop over the indices of lhs_array: return 0
\* at the first index whose components compare lower, return 1 after the
\* last index.  compared is the number of indices visited.
KernelLoop(lhs_array, rhs_array) ==
    IF \E i \in 1..Len(lhs_array) : ComponentLower(lhs_array[i], rhs_array[i])
    THEN [exited |-> FALSE, status |-> 0, output |-> "",
          compared |-> CHOOSE i \in 1..Len(lhs_array) :
                           /\ ComponentLower(lhs_array[i], rhs_array[i])
                           /\ \A j \in 1..(i - 1) :
                                  ~ComponentLower(lhs_array[j], rhs_array[j])]
    ELSE [exited |-> FALSE, status |-> 1, output |-> "", compared |-> Len(lhs_array)]

\* A mutation: the lengths are not checked and the common indices compared.
is_kernel_version_lower_unchecked(lhs, rhs, ifs) ==
    LET lhs_array == ReadArray(lhs, ifs, <<>>)
        rhs_array == ReadArray(rhs, ifs, <<>>)
        n == IF Len(lhs_array) < Len(rhs_array) THEN Len(lhs_array) ELSE Len(rhs_array)
    IN  KernelLoop(SubSeq(lhs_array, 1, n), SubSeq(rhs_array, 1, n))

\* is_kernel_version_lower "$1" "$2" "$3"  (part_001:176-193): exit 1 ends
\* the shell that runs the boot script, return gives the function's status.
is_kernel_version_lower(lhs, rhs, ifs) ==
    LET lhs_array == ReadArray(lhs, ifs, <<>>)
        rhs_array == ReadArray(rhs, ifs, <<>>)
    IN  IF Len(lhs_array) # Len(rhs_array)
        THEN [exited |-> TRUE, status |-> 1, output |-> LengthsError(lhs, rhs),
              compared |-> 0]
        ELSE KernelLoop(lhs_array, rhs_array)

\* Versions of up to MaxComponents components with a delimiter between
\* neighbours.
VersionComponents == {Num(1), Num(2), Word("amzn2")}
VersionDelimiters == {Delim("."), Delim("-")}

VersionsOf(n) ==
    { v \in [1..(2 * n - 1) -> VersionComponents \cup VersionDelimiters] :
          \A i \in 1..(2 * n - 1) :
              IF i % 2 = 1 THEN v[i] \in VersionComponents
              ELSE v[i] \in VersionDelimiters }

Version7(a, b, c, d, e, arch) ==
    << Num(a), Delim("."), Num(b), Delim("."), Num(c), Delim("-"), Num(d),
       Delim("."), Num(e), Delim("."), Word("amzn2"), Delim("."), Word(arch) >>

\* '4.14.104-95.84.amzn2.x86_64' and '4.14.181-142.260.amzn2.aarch64'
MinVerX86 == Version7(4, 14, 104, 95, 84, "x86_64")
MinVerGraviton == Version7(4, 14, 181, 142, 260, "aarch64")

\* Kernels of Amazon Linux 2 releases, and an Ubuntu kernel (5.4.0-1045-aws).
KernelExamples ==
    { MinVerX86,
      Version7(4, 14, 97, 90, 72, "x86_64"),
      Version7(4, 14, 256, 197, 484, "x86_64"),
      Version7(5, 10, 29, 27, 126, "x86_64"),
      Version7(4, 14, 177, 139, 254, "aarch64"),
      Version7(4, 14, 104, 95, 84, "i686"),
      << Num(4), Delim("."), Num(14), Delim("."), Num(104), Delim("."), Num(95),
         Delim("."), Num(84), Delim("."), Word("amzn2"), Delim("."), Word("x86_64") >>,
      << Num(4), Delim("."), Num(14), Delim("."), Num(104), Delim("-"), Num(95),
         Delim("."), Num(84), Delim("."), Word("amzn1"), Delim("."), Word("x86_64") >>,
      << Num(5), Delim("."), Num(4), Delim("."), Num(0), Delim("-"), Num(1045),
         Delim("-"), Word("aws") >> }

\* Amazon Linux 2 kernels around a version: every number one less, the same
\* or one more.
KernelOffsets == {-1, 0, 1}
NearbyKernels(a, b, c, d, e, arch) ==
    { Version7(a + o[1], b + o[2], c + o[3], d + o[4], e + o[5], arch) :
          o \in [1..5 -> KernelOffsets] }

\* The two patterns as token shapes: [0-9]+ is a number, the rest is literal.
KernelPattern(arch) ==
    << "[0-9]+", ".", "[0-9]+", ".", "[0-9]+", "-", "[0-9]+", ".", "[0-9]+",
       ".", "amzn2", ".", arch >>

\* [[ "$KERNEL_VERSION" =~ ^pattern$ ]]
MatchesPattern(version, pattern) ==
    /\ Len(version) = Len(pattern)
    /\ \A i \in 1..Len(pattern) :
           IF pattern[i] = "[0-9]+" THEN version[i].kind = "num"
           ELSE version[i].kind # "num" /\ version[i].text = pattern[i]

NotAmazonLinux2Text == "Not on Amazon Linux 2. Exiting..."

\* A mutation: a kernel that matches neither pattern gets the x86_64 minimum.
MinVerOfKernelOrX86(kernel) ==
    IF MatchesPattern(kernel, KernelPattern("aarch64"))
    THEN [matched |-> TRUE, MIN_VER |-> MinVerGraviton]
    ELSE [matched |-> TRUE, MIN_VER |-> MinVerX86]

\* Lines 205-211 of the commands: the if / elif / else on the two patterns.
MinVerOfKernel(kernel) ==
    IF MatchesPattern(kernel, KernelPattern("x86_64"))
    THEN [matched |-> TRUE, MIN_VER |-> MinVerX86]
    ELSE IF MatchesPattern(kernel, KernelPattern("aarch64"))
    THEN [matched |-> TRUE, MIN_VER |-> MinVerGraviton]
    ELSE [matched |-> FALSE, MIN_VER |-> <<>>]

\* $KERNEL_VERSION
KernelVersions == KernelExamples \cup UNION {VersionsOf(n) : n \in 1..MaxComponents}

\* $MIN_VER: the two minimum versions of the code, and the short versions
\* 1.2 and 2.1-2 standing for them against the short kernel versions.
MinVersions ==
    { MinVerX86, MinVerGraviton,
      << Num(1), Delim("."), Num(2) >>,
      << Num(2), Delim("."), Num(1), Delim("-"), Num(2) >> }

UpdateKernelCommand == "sudo yum -y update kernel"
RebootCommand == "sudo reboot"
InstallLustreCommand == "sudo amazon-linux-extras install -y lustre2.10"

\* The kernels the generated commands are run on.
BootKernels ==
    KernelVersions \cup NearbyKernels(4, 14, 104, 95, 84, "x86_64")
                   \cup NearbyKernels(4, 14, 181, 142, 260, "aarch64")

\* entry "script": the commands run from their first line, and MIN_VER is
\* unset until the patterns have set it.  entry "helper": the helper's call
\* of line 212 with both arguments drawn from the bounded sets.
InstallScript(distribution, kernel, minVer) ==
    [pc |-> "define", distribution |-> distribution,
     entry |-> IF minVer = <<>> THEN "script" ELSE "helper",
     KERNEL_VERSION |-> kernel, MIN_VER |-> minVer,
     error |-> "", commands |-> <<>>, lower |-> FALSE, compared |-> 0,
     output |-> "", exitStatus |-> -1, ran |-> <<>>]

\* A MountableFsxLustre of every distribution; the kernel the commands would
\* meet at boot matters for the one distribution that has commands.
InitLustreInstall ==
    /\ InitModel
    /\ probe = NoProbe
    /\ script \in
         { InstallScript(d, k, m) :
               d \in {AMAZON_LINUX_2}, k \in KernelVersions, m \in MinVersions }
         \cup { InstallScript(AMAZON_LINUX_2, k, <<>>) : k \in BootKernels }
         \cup { InstallScript(d, MinVerX86, MinVerX86) :
                    d \in LinuxDistribution \ {AMAZON_LINUX_2} }

\* this.getLustreClientInstallationCommands() at definition time.
GetLustreClientInstallationCommands ==
    /\ script.pc = "define"
    /\ LET got == getLustreClientInstallationCommands(script.distribution)
       IN  script' = IF got.error # ""
                     THEN [script EXCEPT !.pc = "thrown", !.error = got.error]
                     ELSE [script EXCEPT
                              !.pc = IF script.entry = "script" THEN "classify" ELSE "call",
                              !.commands = got.commands]
    /\ UNCHANGED <<apiVars, probe>>

\* KERNEL_VERSION=$(uname -r); if [[ ... =~ x86 ]] ... elif [[ ... =~ graviton ]]
\* ... else echo "Not on Amazon Linux 2. Exiting..."; exit 1; fi
ClassifyKernel ==
    /\ script.pc = "classify"
    /\ LET found == MinVerOfKernel(script.KERNEL_VERSION)
       IN  script' = IF found.matched
                     THEN [script EXCEPT !.pc = "call", !.MIN_VER = found.MIN_VER]
                     ELSE [script EXCEPT !.pc = "exited", !.exitStatus = 1,
                                         !.output = NotAmazonLinux2Text]
    /\ UNCHANGED <<apiVars, probe>>

\* if is_kernel_version_lower $KERNEL_VERSION $MIN_VER ".-"; then
CallIsKernelVersionLower ==
    /\ script.pc = "call"
    /\ LET r == is_kernel_version_lower(script.KERNEL_VERSION, script.MIN_VER, KernelIFS)
       IN  script' = IF r.exited
                     THEN [script EXCEPT !.pc = "exited", !.exitStatus = r.status,
                                         !.output = r.output, !.compared = r.compared]
                     ELSE [script EXCEPT !.pc = IF r.status = 0 THEN "update" ELSE "install",
                                         !.lower = (r.status = 0),
                                         !.compared = r.compared]
    /\ UNCHANGED <<apiVars, probe>>

\* sudo yum -y update kernel && sudo reboot: the reboot is requested when
\* the update succeeded; reboot returns and the script goes on.
UpdateKernel ==
    /\ script.pc = "update"
    /\ \E updated \in BOOLEAN :
           script' = [script EXCEPT
                        !.pc = "install",
                        !.ran = @ \o <<UpdateKernelCommand>>
                                  \o (IF updated THEN <<RebootCommand>> ELSE <<>>)]
    /\ UNCHANGED <<apiVars, probe>>

\* The shutdown the reboot started ends the script before its next command.
Shutdown ==
    /\ script.pc = "install"
    /\ \E i \in 1..Len(script.ran) : script.ran[i] = RebootCommand
    /\ script' = [script EXCEPT !.pc = "killed"]
    /\ UNCHANGED <<apiVars, probe>>

\* sudo amazon-linux-extras install -y lustre2.10
InstallLustreClient ==
    /\ script.pc = "install"
    /\ script' = [script EXCEPT !.pc = "done", !.exitStatus = 0,
                                !.ran = Append(@, InstallLustreCommand)]
    /\ UNCHANGED <<apiVars, probe>>

NextLustreInstall ==
    \/ GetLustreClientInstallationCommands
    \/ ClassifyKernel
    \/ CallIsKernelVersionLower
    \/ UpdateKernel
    \/ Shutdown
    \/ InstallLustreClient

SpecLustreInstall == InitLustreInstall /\ [][NextLustreInstall]_vars

(***************************************************************************)
(* mountNfs.sh run on an instance (scripts/bash/mountNfs.sh).  The state   *)
(* of the run is the script's position and variables; the state of the     *)
(* instance is /etc/fstab and the live mount table /proc/mounts.  A run    *)
(* may follow another on the same instance: the boot script invokes        *)
(* mountNfs.sh once per mountToLinuxInstance call.                         *)
(***************************************************************************)
MaxRuns == 2
MAX_TRIES == 20
SleepSeconds == 2

\* The exit statuses of `sudo mount -a -t nfs4` (0, or 32: mount failure).
MountStatuses == {0, 32}

\* /etc/fstab: its complete lines and the text after the last newline.
Fstab(lines, partial) == [lines |-> lines, partial |-> partial]

\* test $(tail -c 1 /etc/fstab | wc -l) -eq 0: the last character is not a
\* newline (or the file is empty).
MissingNewline(fstab) == fstab.partial # "" \/ fstab.lines = <<>>

\* echo "" | sudo tee -a /etc/fstab, and a mutation that appends nothing.
AppendNewlineSkipped(fstab) == fstab
AppendNewline(fstab) == Fstab(Append(fstab.lines, fstab.partial), "")

\* echo "<line>" | sudo tee -a /etc/fstab
AppendLine(fstab, line) ==
    IF fstab.partial = "" THEN Fstab(Append(fstab.lines, line), "")
    ELSE Fstab(Append(fstab.lines, fstab.partial \o line), "")

\* The entry of line 39.
FstabEntry(endpoint, directory, mountPath, mountOptions) ==
    PathText(endpoint) \o ":" \o PathText(directory) \o " " \o PathText(mountPath)
    \o " nfs4 nfsvers=4.1,rsize=1048576,wsize=1048576,hard,timeo=600,retrans=2,_netdev,"
    \o mountOptions \o " 0 0"

\* && ! sudo mount -a -t nfs4: the loop body runs when the mount failed, the
\* loop ends when it succeeded; and a mutation that runs the body always.
AfterMountAlwaysRetry(status) == "sleep"
AfterMount(status) == IF status = 0 THEN "verify" ELSE "sleep"

\* test ${TRIES} -lt ${MAX_TRIES}, and a mutation that tests -le.
TriesLeftInclusive(tries) == tries <= MAX_TRIES
TriesLeft(tries) == tries < MAX_TRIES

\* A mounted filesystem and its line in /proc/mounts, as characters.  The
\* kernel records a mount point without trailing separators.
RECURSIVE MountPoint(_)
MountPoint(path) ==
    IF Len(path) > 1 /\ path[Len(path)] = SEP
    THEN MountPoint(SubSeq(path, 1, Len(path) - 1))
    ELSE path

Mounted(device, dir) == [device |-> device, dir |-> dir]
MountsLine(m) == m.device \o <<" ">> \o m.dir \o <<" ">>

\* grep "<pattern>": the pattern occurs in the line.
Contains(line, pattern) ==
    \E i \in 1..(Len(line) - Len(pattern) + 1) :
        SubSeq(line, i, i + Len(pattern) - 1) = pattern

\* cat /proc/mounts | grep "${MOUNT_PATH}"; $? is the status of grep.
GrepStatus(mounts, pattern) ==
    IF \E m \in mounts : Contains(MountsLine(m), pattern) THEN 0 ELSE 1

UsageText == "Usage: $0 <nfs server endpoint> <nfs server directory> <mount path> [<mount options>]"

\* The arguments of a run: count is $#.
ScriptEndpoint == <<"h">>
ScriptDirectory == <<"/", "s">>
ScriptMountPaths == { <<"/", "a">>, <<"/", "a", "/">> }
ScriptArguments ==
    { [count |-> 2, endpoint |-> ScriptEndpoint, directory |-> ScriptDirectory,
       path |-> <<>>, options |-> ""] }
    \cup { [count |-> 3, endpoint |-> ScriptEndpoint, directory |-> ScriptDirectory,
            path |-> p, options |-> ""] : p \in ScriptMountPaths }
    \cup { [count |-> 4, endpoint |-> ScriptEndpoint, directory |-> ScriptDirectory,
            path |-> p, options |-> "rw"] : p \in ScriptMountPaths }

\* The instance before the first run: /etc/fstab empty, ending in a newline
\* or not; nothing mounted, or another filesystem mounted at /ab.
RootEntry == "LABEL=/ / xfs defaults,noatime 1 1"
InitialFstabs == { Fstab(<<>>, ""), Fstab(<<RootEntry>>, ""), Fstab(<<>>, RootEntry) }
InitialMounts ==
    { {}, { Mounted(<<"h", ":", "/", "t">>, <<"/", "a", "b">>) } }

MountNfsScript(args, fstab, mounts) ==
    [pc |-> "start", args |-> args,
     NFS_SERVER_ENDPOINT |-> <<>>, NFS_SERVER_DIRECTORY |-> <<>>,
     MOUNT_PATH |-> <<>>, MOUNT_OPTIONS |-> "",
     TRIES |-> 0, attempts |-> 0, slept |-> 0, mountStatus |-> -1,
     output |-> "", exitStatus |-> -1, packageManager |-> "",
     fstab |-> fstab, mounts |-> mounts, directories |-> {},
     runs |-> 1, fstabAfterLastRun |-> fstab]

InitMountNfs ==
    /\ InitModel
    /\ probe = NoProbe
    /\ script \in { MountNfsScript(a, f, m) :
                       a \in ScriptArguments, f \in InitialFstabs, m \in InitialMounts }

\* Lines 14-22: the usage check and the assignment of the arguments.
CheckArguments ==
    /\ script.pc = "start"
    /\ script' = IF script.args.count < 3
                 THEN [script EXCEPT !.pc = "done", !.output = UsageText,
                                     !.exitStatus = 1]
                 ELSE [script EXCEPT !.pc = "packages",
                                     !.NFS_SERVER_ENDPOINT = script.args.endpoint,
                                     !.NFS_SERVER_DIRECTORY = script.args.directory,
                                     !.MOUNT_PATH = script.args.path,
                                     !.MOUNT_OPTIONS = script.args.options]
    /\ UNCHANGED <<apiVars, probe>>

\* Lines 24-28: if which yum; then yum install; else apt-get install.
InstallNfsClient ==
    /\ script.pc = "packages"
    /\ \E manager \in {"yum", "apt-get"} :
           script' = [script EXCEPT !.pc = "mkdir", !.packageManager = manager]
    /\ UNCHANGED <<apiVars, probe>>

\* Line 30: sudo mkdir -p "$MOUNT_PATH"
MakeMountPath ==
    /\ script.pc = "mkdir"
    /\ script' = [script EXCEPT !.pc = "newline",
                                !.directories = @ \cup {MountPoint(script.MOUNT_PATH)}]
    /\ UNCHANGED <<apiVars, probe>>

\* Lines 33-37: add the newline /etc/fstab may be missing.
EnsureFstabNewline ==
    /\ script.pc = "newline"
    /\ script' = [script EXCEPT
                    !.pc = "append",
                    !.fstab = IF MissingNewline(@) THEN AppendNewline(@) ELSE @]
    /\ UNCHANGED <<apiVars, probe>>

\* Lines 39-45: append the entry; TRIES=0.
AppendFstabEntry ==
    /\ script.pc = "append"
    /\ script' = [script EXCEPT
                    !.pc = "loop",
                    !.fstab = AppendLine(@, FstabEntry(script.NFS_SERVER_ENDPOINT,
                                  script.NFS_SERVER_DIRECTORY, script.MOUNT_PATH,
                                  script.MOUNT_OPTIONS)),
                    !.TRIES = 0]
    /\ UNCHANGED <<apiVars, probe>>

\* Line 46: while test ${TRIES} -lt ${MAX_TRIES} && ! sudo mount -a -t nfs4.
\* The mount runs only when the test succeeds.  Its status and whether the
\* entry of this script got mounted are the environment's: the mount can
\* fail, succeed, report success without mounting the entry (an option such
\* as noauto) or report failure for another entry after mounting this one.
TryMount ==
    /\ script.pc = "loop"
    /\ IF TriesLeft(script.TRIES)
       THEN \E status \in MountStatuses, mounted \in BOOLEAN :
               script' = [script EXCEPT
                   !.pc = AfterMount(status),
                   !.attempts = @ + 1,
                   !.mountStatus = status,
                   !.mounts = IF mounted
                              THEN @ \cup { Mounted(script.NFS_SERVER_ENDPOINT \o <<":">>
                                                    \o script.NFS_SERVER_DIRECTORY,
                                                    MountPoint(script.MOUNT_PATH)) }
                              ELSE @]
       ELSE script' = [script EXCEPT !.pc = "verify"]
    /\ UNCHANGED <<apiVars, probe>>

\* Lines 48-49: let TRIES=TRIES+1; sleep 2
RetryDelay ==
    /\ script.pc = "sleep"
    /\ script' = [script EXCEPT !.pc = "loop", !.TRIES = @ + 1,
                                !.slept = @ + SleepSeconds]
    /\ UNCHANGED <<apiVars, probe>>

\* Lines 53-54: cat /proc/mounts | grep "${MOUNT_PATH}"; exit $?
VerifyMounted ==
    /\ script.pc = "verify"
    /\ script' = [script EXCEPT !.pc = "done",
                                !.exitStatus = GrepStatus(script.mounts, script.MOUNT_PATH)]
    /\ UNCHANGED <<apiVars, probe>>

\* The boot script invokes mountNfs.sh again with the same arguments.
RunAgain ==
    /\ script.pc = "done"
    /\ script.runs < MaxRuns
    /\ script' = [MountNfsScript(script.args, script.fstab, script.mounts)
                    EXCEPT !.runs = script.runs + 1,
                           !.directories = script.directories]
    /\ UNCHANGED <<apiVars, probe>>

RunMountNfs ==
    \/ CheckArguments
    \/ InstallNfsClient
    \/ MakeMountPath
    \/ EnsureFstabNewline
    \/ AppendFstabEntry
    \/ TryMount
    \/ RetryDelay
    \/ VerifyMounted

NextMountNfs == RunMountNfs \/ RunAgain

SpecMountNfs == InitMountNfs /\ [][NextMountNfs]_vars

\* A started run of the script goes on: bash executes one command after the
\* other, and every command of the script returns.
SpecMountNfsLive == InitMountNfs /\ [][NextMountNfs]_vars /\ WF_vars(RunMountNfs)

(***************************************************************************)
(* exportNfsDirectory.sh: a run of the script on the NFS server, one       *)
(* action per step.  The record in script holds the shell variables, the   *)
(* account database, /etc/exports, the directories made, the table the NFS *)
(* server has loaded, and what the host looked like when the run began.    *)
(***************************************************************************)
ExportUsageText == "Usage: $0 <directory> <client> <export-options>"

NfsUserName == "nfs-user"

\* No account, or the account nfs-user with its ids.
NoAccount == <<>>
Account(uid, gid) == <<[name |-> NfsUserName, uid |-> uid, gid |-> gid]>>

\* The ids useradd can give a new account and its group.
FreeIds == {1001, 1002}

\* $(id nfs-user > /dev/null 2>&1; echo $?)
IdStatus(passwd) == IF passwd = NoAccount THEN 1 ELSE 0

\* A mutation: the options are exported as they were given.
ExportOptionsAsGiven(options, uid, gid) == options

\* EXPORT_OPTS="$EXPORT_OPTS,all_squash,anonuid=$NFS_USER_UID,anongid=$NFS_USER_GID"
ExportOptions(options, uid, gid) ==
    options \o ",all_squash,anonuid=" \o ToString(uid) \o ",anongid=" \o ToString(gid)

\* "$EXPORT_DIR $CLIENT_NAME($EXPORT_OPTS)"
ExportEntry(dir, client, options) == dir \o " " \o client \o "(" \o options \o ")"

ExportDirs == {"/mnt/a", "/mnt/b"}
ExportClients == {"*", "10.0.0.0/16"}

\* The arguments of a run: too few, the three of NfsInstance.share, or one more.
ExportArguments ==
    { <<"/mnt/a">>, <<"/mnt/a", "*", "ro">>, <<"/mnt/a", "*", "ro", "x">> }
    \cup { <<d, c, "rw,sync">> : d \in ExportDirs, c \in ExportClients }

\* The script is run again at most this many times.
MaxExportRuns == 1

\* /etc/exports before the first run: empty, a complete line, or a line
\* without its newline.
InitialExports ==
    { Fstab(<<>>, ""),
      Fstab(<<"/srv 10.1.0.0/16(ro)">>, ""),
      Fstab(<<>>, "/srv 10.1.0.0/16(ro)") }

InitialAccounts == {NoAccount, Account(1001, 1001), Account(1001, 1002)}

Host(accounts, table, dirs, loaded, added) ==
    [passwd |-> accounts, exports |-> table, directories |-> dirs,
     exported |-> loaded, useradds |-> added]

ExportScript(args, host) ==
    [pc |-> "check", args |-> args,
     EXPORT_DIR |-> "", CLIENT_NAME |-> "", EXPORT_OPTS |-> "",
     USERNAME |-> "", NFS_USER_UID |-> 0, NFS_USER_GID |-> 0,
     passwd |-> host.passwd, exports |-> host.exports,
     directories |-> host.directories, exported |-> host.exported,
     useradds |-> host.useradds,
     output |-> "", exitStatus |-> -1, runs |-> 0, atStart |-> host]

InitExportNfs ==
    /\ InitModel
    /\ probe = NoProbe
    /\ script \in { ExportScript(a, Host(p, e, {}, e.lines, 0)) :
                        a \in ExportArguments, p \in InitialAccounts,
                        e \in InitialExports }

\* Lines 13-20: fewer than three arguments print the usage and exit 1.
CheckExportArguments ==
    /\ script.pc = "check"
    /\ script' = IF Len(script.args) < 3
                 THEN [script EXCEPT !.pc = "exited", !.exitStatus = 1,
                                     !.output = ExportUsageText]
                 ELSE [script EXCEPT !.pc = "account",
                                     !.EXPORT_DIR = script.args[1],
                                     !.CLIENT_NAME = script.args[2],
                                     !.EXPORT_OPTS = script.args[3]]
    /\ UNCHANGED <<apiVars, probe>>

\* Lines 25-27: sudo useradd nfs-user when id nfs-user returned 1.
EnsureNfsUser ==
    /\ script.pc = "account"
    /\ IF IdStatus(script.passwd) = 1
       THEN \E uid \in FreeIds, gid \in FreeIds :
               script' = [script EXCEPT !.pc = "options",
                                        !.passwd = Account(uid, gid),
                                        !.useradds = script.useradds + 1]
       ELSE script' = [script EXCEPT !.pc = "options"]
    /\ UNCHANGED <<apiVars, probe>>

\* Lines 28-31: the ids of the account and the squash options.
AddSquashOptions ==
    /\ script.pc = "options"
    /\ LET uid == script.passwd[1].uid
           gid == script.passwd[1].gid
       IN  script' = [script EXCEPT
                        !.pc = "newline",
                        !.USERNAME = NfsUserName,
                        !.NFS_USER_UID = uid,
                        !.NFS_USER_GID = gid,
                        !.EXPORT_OPTS = ExportOptions(script.EXPORT_OPTS, uid, gid)]
    /\ UNCHANGED <<apiVars, probe>>

\* Lines 34-36: end /etc/exports with a newline.
EnsureExportsNewline ==
    /\ script.pc = "newline"
    /\ script' = [script EXCEPT
                    !.pc = "mkdir",
                    !.exports = IF MissingNewline(script.exports)
                                THEN AppendNewline(script.exports)
                                ELSE script.exports]
    /\ UNCHANGED <<apiVars, probe>>

\* Lines 38-39: sudo mkdir -p and sudo chown of the exported directory.
MakeExportDirectory ==
    /\ script.pc = "mkdir"
    /\ script' = [script EXCEPT
                    !.pc = "append",
                    !.directories =
                        { d \in script.directories : d.path # script.EXPORT_DIR }
                        \cup {[path |-> script.EXPORT_DIR, owner |-> script.USERNAME]}]
    /\ UNCHANGED <<apiVars, probe>>

\* Line 40: the entry is appended to /etc/exports.
AppendExport ==
    /\ script.pc = "append"
    /\ script' = [script EXCEPT
                    !.pc = "reload",
                    !.exports = AppendLine(script.exports,
                                           ExportEntry(script.EXPORT_DIR,
                                                       script.CLIENT_NAME,
                                                       script.EXPORT_OPTS))]
    /\ UNCHANGED <<apiVars, probe>>

\* Line 41: sudo exportfs -ra; the script ends with its status.
ReloadExports ==
    /\ script.pc = "reload"
    /\ script' = [script EXCEPT !.pc = "done", !.exitStatus = 0,
                                !.exported = script.exports.lines]
    /\ UNCHANGED <<apiVars, probe>>

\* The script is run once for every share of the instance.
RunExportAgain ==
    /\ script.pc \in {"done", "exited"}
    /\ script.runs < MaxExportRuns
    /\ \E args \in ExportArguments :
          script' = [ExportScript(args, Host(script.passwd, script.exports,
                                             script.directories, script.exported,
                                             script.useradds))
                       EXCEPT !.runs = script.runs + 1]
    /\ UNCHANGED <<apiVars, probe>>

NextExportNfs ==
    \/ CheckExportArguments
    \/ EnsureNfsUser
    \/ AddSquashOptions
    \/ EnsureExportsNewline
    \/ MakeExportDirectory
    \/ AppendExport
    \/ ReloadExports
    \/ RunExportAgain

SpecExportNfs == InitExportNfs /\ [][NextExportNfs]_vars

\* The command of the given kind in a command list.
TheCommand(cmds, kind) == cmds[CHOOSE i \in 1..Len(cmds) : cmds[i].kind = kind]

(***************************************************************************)
(* Vocabulary of the claims.                                               *)
(***************************************************************************)
MountOps == {NfsMountOp, LustreMountOp}

\* This step is one API call.
Called(op) == nCalls' = nCalls + 1 /\ lastCall'.op = op
CalledMount == nCalls' = nCalls + 1 /\ lastCall'.op \in MountOps

\* What this step appended to a host's boot buffer.
Added(host) == SubSeq(userData'[host], Len(userData[host]) + 1, Len(userData'[host]))

\* The kinds of a command list in order, runs of one kind counted once; the
\* two commands of a download are one phase.
RECURSIVE Phases(_)
Phases(cmds) ==
    IF cmds = <<>> THEN <<>>
    ELSE LET k == IF Head(cmds).kind = "download_dir" THEN "download" ELSE Head(cmds).kind
             rest == Phases(Tail(cmds))
         IN  IF rest # <<>> /\ rest[1] = k THEN rest ELSE <<k>> \o rest

CountKind(cmds, kind) == Cardinality({i \in 1..Len(cmds) : cmds[i].kind = kind})

Resources == {c \in children : c.type \in ResourceTypes}

(***************************************************************************)
(* C1.  The bundle asset of an identity key is created at most once per    *)
(* stack: all lookups with the same (stack, identity) returned the same    *)
(* handle, lookups in different stacks returned different handles, and     *)
(* the stack holds at most one child under the key.                        *)
(***************************************************************************)
C1_AssetSingletonPerStack ==
    /\ \A i, j \in 1..Len(lookups) :
           /\ (lookups[i].stack = lookups[j].stack /\ lookups[i].id = lookups[j].id)
                  => lookups[i].handle = lookups[j].handle
           /\ lookups[i].stack # lookups[j].stack
                  => lookups[i].handle # lookups[j].handle
    /\ \A stack \in Stacks, id \in {NfsAssetId, LustreAssetId} :
           Cardinality(tryFindChild(stack, id)) <= 1

C1_Witness ==
    \E i, j, k \in 1..Len(lookups) :
        /\ i < j
        /\ lookups[i].id = lookups[j].id /\ lookups[i].id = lookups[k].id
        /\ lookups[i].stack = lookups[j].stack
        /\ lookups[k].stack # lookups[i].stack
        /\ lookups[i].handle = lookups[j].handle
        /\ lookups[k].handle # lookups[i].handle

(***************************************************************************)
(* C2.  A mountToLinuxInstance call on a target that is not Linux ends     *)
(* with the error 'Target instance must be Linux.' and changes neither the *)
(* boot buffers, the network policy, the read grants nor the asset cache.  *)
(***************************************************************************)
C2_NonLinuxFailsWithoutMutation ==
    [][ (CalledMount /\ OsType(lastCall'.target) # LINUX)
          => /\ lastCall'.error = "Target instance must be Linux."
             /\ UNCHANGED <<userData, onExitLines, ingress, grants, children,
                            nextHandle, lookups>> ]_vars

C2_Witness ==
    /\ lastCall.op \in MountOps
    /\ lastCall.target = "WindowsInstance"
    /\ lastCall.error = LinuxOnlyError
    /\ userData["Instance"] # <<>>
    /\ userData["WindowsInstance"] = <<>>

(***************************************************************************)
(* C3.  A Lustre mountToLinuxInstance call that fails because the          *)
(* distribution is unsupported leaves the boot buffers, the network        *)
(* policy, the read grants and the asset cache as they were.               *)
(***************************************************************************)
C3_UnsupportedDistributionNoMutation ==
    [][ (Called(LustreMountOp) /\ lastCall'.error \notin {"", LinuxOnlyError})
          => UNCHANGED <<userData, ingress, grants, children>> ]_vars

(***************************************************************************)
(* C4.  The options token is the permission flag followed by each extra    *)
(* option, in the order given and each preceded by a comma; without        *)
(* extras it is the flag alone; for ReadWrite and [soft, rsize=4096] it is *)
(* 'rw,soft,rsize=4096'.  The token ends the mount-script invocation.      *)
(***************************************************************************)
RECURSIVE CommaPrefixed(_)
CommaPrefixed(ss) ==
    IF ss = <<>> THEN "" ELSE "," \o Head(ss) \o CommaPrefixed(Tail(ss))

C4_OptionsToken ==
    probe.phase = "out" =>
        LET flag == IF probe.permissions = Some(READONLY) THEN "r" ELSE "rw"
            extras == IF IsSome(probe.extraMountOptions)
                      THEN probe.extraMountOptions[1] ELSE <<>>
            token == flag \o CommaPrefixed(extras)
        IN  /\ probe.mountOptionsStr = token
            /\ extras = <<>> => probe.mountOptionsStr = flag
            /\ (probe.permissions = Some(READWRITE) /\ extras = <<"soft", "rsize=4096">>)
                   => probe.mountOptionsStr = "rw,soft,rsize=4096"
            /\ TheCommand(probe.nfsCommands, "mount").text =
                   "bash ./mountNfs.sh hostname.zoneName /mnt/nfs "
                   \o PathText(probe.mountDir) \o " " \o token
            /\ TheCommand(probe.lustreCommands, "mount").text =
                   "bash ./mountFsxLustre.sh " \o LustreFileSystemId \o " "
                   \o PathText(probe.mountDir) \o " " \o LustreMountName \o " " \o token

C4_Witness ==
    /\ probe.phase = "out"
    /\ probe.permissions = Some(READWRITE)
    /\ probe.extraMountOptions = Some(<<"soft", "rsize=4096">>)
    /\ probe.mountOptionsStr = "rw,soft,rsize=4096"

(***************************************************************************)
(* C5.  The permission flag of a mount is 'rw' for ReadWrite, 'r' for      *)
(* ReadOnly and 'rw' when no permission is given, and nothing else.        *)
(***************************************************************************)
C5_PermissionFlag ==
    probe.phase = "out" =>
        /\ probe.mountOptions[1] \in {"rw", "r"}
        /\ probe.permissions = Some(READWRITE) => probe.mountOptions[1] = "rw"
        /\ probe.permissions = Some(READONLY) => probe.mountOptions[1] = "r"
        /\ probe.permissions = None => probe.mountOptions[1] = "rw"
        /\ (probe.permissions = None /\ probe.extraMountOptions = None)
               => TheCommand(probe.nfsCommands, "mount").text =
                      "bash ./mountNfs.sh hostname.zoneName /mnt/nfs "
                      \o PathText(probe.mountDir) \o " rw"

C5_Witness ==
    /\ probe.phase = "out"
    /\ probe.permissions = Some(READONLY)
    /\ probe.extraMountOptions = None
    /\ probe.mountOptionsStr = "r"

(***************************************************************************)
(* C6.  As claimed: a successful mountToLinuxInstance appends the client   *)
(* installation commands, the temp-directory creation and cd, the bundle   *)
(* download, the extraction, the mount-script invocation, the return to    *)
(* the previous directory and the removal of the archive, in this order.   *)
(***************************************************************************)
ClaimedMountPhases ==
    <<"mktemp", "pushd", "download", "unzip", "mount", "popd", "rm">>

C6_DownloadAfterTempDir ==
    [][ (CalledMount /\ lastCall'.error = "")
          => /\ IsPrefix(userData[lastCall'.target], userData'[lastCall'.target])
             /\ Phases(Added(lastCall'.target))
                    \in {ClaimedMountPhases, <<"install">> \o ClaimedMountPhases} ]_vars

(***************************************************************************)
(* C6, amended.  A successful mountToLinuxInstance appends the bundle      *)
(* download first, then (MountableFsxLustre only) the client installation  *)
(* commands, then the temp-directory creation and cd, the extraction, the  *)
(* mount-script invocation, the return to the previous directory and the   *)
(* removal of the archive.                                                 *)
(***************************************************************************)
MountPhasesAfterDownload == <<"mktemp", "pushd", "unzip", "mount", "popd", "rm">>

C6_MountCommandOrder ==
    [][ (CalledMount /\ lastCall'.error = "")
          => /\ IsPrefix(userData[lastCall'.target], userData'[lastCall'.target])
             /\ Phases(Added(lastCall'.target)) =
                    IF lastCall'.op = LustreMountOp
                    THEN <<"download", "install">> \o MountPhasesAfterDownload
                    ELSE <<"download">> \o MountPhasesAfterDownload ]_vars

C6_Witness ==
    /\ lastCall.op = LustreMountOp
    /\ lastCall.error = ""
    /\ CountKind(userData[lastCall.target], "install") > 0
    /\ CountKind(userData[lastCall.target], "mount") = 2
    /\ userData[lastCall.target][Len(userData[lastCall.target])].kind = "rm"

(***************************************************************************)
(* C7.  As claimed: the local path of the mount-script invocation has no   *)
(* redundant separators and no trailing separator (the root excepted).     *)
(***************************************************************************)
HasRedundantSeparator(p) == \E i \in 1..(Len(p) - 1) : p[i] = SEP /\ p[i + 1] = SEP
EndsWithSeparator(p) == p # <<>> /\ p[Len(p)] = SEP

C7_TrailingSeparatorStripped ==
    probe.phase = "out" =>
        /\ ~HasRedundantSeparator(probe.mountDir)
        /\ EndsWithSeparator(probe.mountDir) => probe.mountDir = <<SEP>>

(***************************************************************************)
(* C7, amended.  The local path of the mount-script invocation is the      *)
(* normalized mount.location: redundant separators are collapsed, and a    *)
(* trailing separator is kept, not stripped: the path ends in a separator  *)
(* whenever mount.location does, and otherwise only when it is the root.   *)
(***************************************************************************)
C7_NormalizedMountDir ==
    probe.phase = "out" =>
        /\ ~HasRedundantSeparator(probe.mountDir)
        /\ EndsWithSeparator(probe.location) => EndsWithSeparator(probe.mountDir)
        /\ EndsWithSeparator(probe.mountDir)
               => (EndsWithSeparator(probe.location) \/ probe.mountDir = <<SEP>>)
        /\ probe.mountDir # <<>>
        /\ TheCommand(probe.nfsCommands, "mount").text =
               "bash ./mountNfs.sh hostname.zoneName /mnt/nfs "
               \o PathText(probe.mountDir) \o " " \o probe.mountOptionsStr
        /\ TheCommand(probe.lustreCommands, "mount").text =
               "bash ./mountFsxLustre.sh " \o LustreFileSystemId \o " "
               \o PathText(probe.mountDir) \o " " \o LustreMountName
               \o " " \o probe.mountOptionsStr

C7_Witness ==
    /\ probe.phase = "out"
    /\ probe.location = <<SEP, "a", SEP, SEP>>
    /\ probe.mountDir = <<SEP, "a", SEP>>

(***************************************************************************)
(* C8.  Every share call appends exactly one record {client, options} to   *)
(* the export list and exactly one export-script invocation to the         *)
(* server's boot buffer, whatever the list holds already; with the         *)
(* options omitted the record holds rw, sync, no_subtree_check, insecure.  *)
(***************************************************************************)
C8_ShareAppendsOneExport ==
    [][ Called(ShareOp)
          => /\ Len(exports') = Len(exports) + 1
             /\ SubSeq(exports', 1, Len(exports)) = exports
             /\ exports'[Len(exports')].client = lastCall'.client
             /\ exports'[Len(exports')].nfsOptions =
                    IF IsSome(lastCall'.nfsOptions) THEN lastCall'.nfsOptions[1]
                    ELSE <<"rw", "sync", "no_subtree_check", "insecure">>
             /\ IsPrefix(userData[SERVER], userData'[SERVER])
             /\ CountKind(Added(SERVER), "export") = 1
             /\ CountKind(userData'[SERVER], "export") = Len(exports') ]_vars

C8_Witness ==
    /\ Len(exports) = 2
    /\ exports[1] = exports[2]
    /\ exports[1] = [client |-> "10.0.0.0/24",
                     nfsOptions |-> <<"rw", "sync", "no_subtree_check", "insecure">>]
    /\ CountKind(userData[SERVER], "export") = 2

(***************************************************************************)
(* C9.  The export list is append-only: it is empty when the NfsInstance   *)
(* has been constructed, and every operation leaves the list it found as   *)
(* a prefix of the list it leaves.                                         *)
(***************************************************************************)
C9_ExportsAppendOnly ==
    [][ /\ IsPrefix(exports, exports')
        /\ (~nfs.built /\ nfs'.built) => exports' = <<>> ]_vars

C9_Witness ==
    /\ Len(exports) = 1
    /\ lastCall.op \in {NfsMountOp, AddSecurityGroupOp}
    /\ lastCall.error = ""

(***************************************************************************)
(* C10.  Constructing an NfsInstance with a subnet selection that matches  *)
(* no subnet fails with an error whose message holds the serialized        *)
(* selection, and creates no server, volume, DNS record, log group or      *)
(* asset: nothing but the construct's own node is added.                   *)
(***************************************************************************)
SerializedSelection(vpcSubnets) ==
    IF vpcSubnets = Selection(Some("Isolated"), None)
    THEN "{\"subnetType\":\"Isolated\"}"
    ELSE IF vpcSubnets = Selection(Some("Private"), Some(<<"dummy zone">>))
    THEN "{\"subnetType\":\"Private\",\"availabilityZones\":[\"dummy zone\"]}"
    ELSE "?"

C10_NoSubnetsFailsWithoutResources ==
    [][ (Called(NfsInstanceOp) /\ selectSubnets(lastCall'.vpcSubnets) = <<>>)
          => /\ lastCall'.error = "Did not find any subnets matching "
                                  \o SerializedSelection(lastCall'.vpcSubnets)
                                  \o ". Please use a different selection."
             /\ Resources' = Resources
             /\ Cardinality(children') = Cardinality(children) + 1
             /\ ~nfs'.built
             /\ UNCHANGED <<userData, onExitLines, ingress, grants, exports>> ]_vars

C10_Witness ==
    /\ lastCall.op = NfsInstanceOp
    /\ lastCall.vpcSubnets = Selection(Some("Private"), Some(<<"dummy zone">>))
    /\ lastCall.error # ""
    /\ Resources = {}
    /\ \E c \in children : c.type = "NfsInstance"
    /\ ~nfs.built

(***************************************************************************)
(* C11.  A successful NfsInstance construction writes the server's boot    *)
(* script in this order: the strict shell mode, the exit-signal trap, the  *)
(* log-shipping configuration, the volume mount, the NFS service install   *)
(* and start, the download of the export script.  The script lines it      *)
(* appends are therefore shell mode, log shipping, volume mount, NFS       *)
(* service, download, and the exit trap gets the one signal command.       *)
(***************************************************************************)
\* The phases of all the commands of the steps, in the order of the steps.
RECURSIVE AllStepCommands(_)
AllStepCommands(steps) ==
    IF steps = <<>> THEN <<>> ELSE Head(steps).commands \o AllStepCommands(Tail(steps))

\* The position of a phase in a list of phases (0 when absent).
PhaseIndex(phases, kind) ==
    IF \E i \in 1..Len(phases) : phases[i] = kind
    THEN CHOOSE i \in 1..Len(phases) : phases[i] = kind
    ELSE 0

C11_ConstructorBootOrder ==
    [][ (Called(NfsInstanceOp) /\ lastCall'.error = "")
          => LET order == Phases(AllStepCommands(lastCall'.steps))
                 lines == Phases(Added(SERVER))
             IN  /\ order = << "shell_mode", "signal_on_exit", "log_shipping",
                               "volume_mount", "nfs_service", "download" >>
                 /\ lines = << "shell_mode", "log_shipping", "volume_mount",
                               "nfs_service", "download" >>
                 /\ PhaseIndex(lines, "log_shipping") < PhaseIndex(lines, "volume_mount")
                 /\ PhaseIndex(lines, "log_shipping") < PhaseIndex(lines, "nfs_service")
                 /\ PhaseIndex(lines, "log_shipping") < PhaseIndex(lines, "download")
                 /\ userData[SERVER] = <<>>
                 /\ onExitLines'[SERVER] = << SignalOnExitCommand >> ]_vars

C11_Witness ==
    /\ nfs.built
    /\ lastCall.op = NfsInstanceOp
    /\ lastCall.error = ""
    /\ Len(lastCall.steps) = 6
    /\ Phases(userData[SERVER])[2] = "log_shipping"
    /\ Len(onExitLines[SERVER]) = 1

(***************************************************************************)
(* C12.  A constructed NfsInstance has port 2049 and the fullHostname      *)
(* 'hostname.zoneName' (the hostname, a dot, the zone name), and no        *)
(* operation on a constructed NfsInstance changes its port, its            *)
(* fullHostname or its mount specification.                                *)
(***************************************************************************)
C12_EndpointFixedAfterConstruction ==
    [][ /\ nfs'.built => /\ nfs'.port = 2049
                         /\ nfs'.fullHostname = "hostname.zoneName"
                         /\ nfs'.mount = ServerMount
        /\ nfs.built => /\ nfs'.built
                        /\ nfs'.port = nfs.port
                        /\ nfs'.fullHostname = nfs.fullHostname
                        /\ nfs'.mount = nfs.mount ]_vars

C12_Witness ==
    /\ nfs.built
    /\ nfs.port = 2049
    /\ nfs.fullHostname = "hostname.zoneName"
    /\ Len(exports) = 1
    /\ Len(securityGroups) = 2
    /\ lastCall.op = NfsMountOp
    /\ lastCall.error = ""

(***************************************************************************)
(* C17.  Every successful mountToLinuxInstance leaves in the network       *)
(* policy the rule from the target to the filesystem on its port (TCP      *)
(* 2049 for the NfsInstance) and adds nothing else to the policy; when the *)
(* rule was already there, the policy is unchanged.                        *)
(***************************************************************************)
MountRule(call, server) ==
    IF call.op = NfsMountOp
    THEN [from |-> call.target, to |-> server, port |-> "tcp:2049"]
    ELSE [from |-> call.target, to |-> LUSTRE, port |-> LustreDefaultPort]

C17_MountAuthorizesOnce ==
    [][ (CalledMount /\ lastCall'.error = "")
          => LET rule == MountRule(lastCall', nfs.id)
             IN  /\ rule \in ingress'
                 /\ ingress' \ ingress \subseteq {rule}
                 /\ ingress \subseteq ingress'
                 /\ rule \in ingress => ingress' = ingress ]_vars

C17_Witness ==
    /\ nfs.built
    /\ lastCall.op = NfsMountOp
    /\ lastCall.error = ""
    /\ CountKind(userData["Instance"], "mount") = 2
    /\ ingress = {[from |-> "Instance", to |-> nfs.id, port |-> "tcp:2049"]}

(***************************************************************************)
(* C18.  The boot-script buffers are only appended to: in every step       *)
(* (construction, share, addSecurityGroup, mountToLinuxInstance) the       *)
(* script lines and the exit-trap lines of every instance before the step  *)
(* are a prefix of its lines after the step.                               *)
(***************************************************************************)
C18_BootBuffersAppendOnly ==
    [][ \A h \in Hosts :
            /\ IsPrefix(userData[h], userData'[h])
            /\ IsPrefix(onExitLines[h], onExitLines'[h]) ]_vars

C18_Witness ==
    /\ nfs.built
    /\ CountKind(userData[SERVER], "export") = 1
    /\ CountKind(userData["Instance"], "mount") = 2
    /\ Len(userData[SERVER]) > 3
    /\ lastCall.error = ""

(***************************************************************************)
(* Vocabulary of the claims about the installation commands: the           *)
(* components of a version are its tokens between the delimiters.          *)
(***************************************************************************)
ComponentsOf(v) == [i \in 1..((Len(v) + 1) \div 2) |-> v[2 * i - 1]]
ComponentCount(v) == Cardinality({i \in 1..Len(v) : v[i].kind # "delim"})

\* The helper has returned (it did not end the script).
HelperReturned == script.pc \in {"update", "install", "done", "killed"}
\* An exit with MIN_VER still unset is the exit of the kernel patterns, taken
\* before the helper is called.
HelperCalled == HelperReturned \/ (script.pc = "exited" /\ script.MIN_VER # <<>>)

\* The two components at position i are numbers and differ.
NumbersDiffer(l, r, i) ==
    /\ l[i].kind = "num" /\ r[i].kind = "num"
    /\ l[i].value # r[i].value

\* At the first position where the numeric components differ, the left one
\* is smaller.
FirstDifferenceLower(l, r) ==
    \E i \in 1..Len(l) :
        /\ NumbersDiffer(l, r, i)
        /\ \A j \in 1..(i - 1) : ~NumbersDiffer(l, r, j)
        /\ l[i].value < r[i].value

(***************************************************************************)
(* C13.  For every distribution other than Amazon Linux 2,                 *)
(* getLustreClientInstallationCommands throws the error 'Linux             *)
(* distribution <n> is not currently not supported': it returns no command *)
(* list, empty, partial or another distribution's, and nothing of the      *)
(* installation runs.                                                      *)
(***************************************************************************)
C13_OtherDistributionsNotSupported ==
    (script.pc # "define" /\ script.distribution # 1)
        => /\ script.pc = "thrown"
           /\ script.error = "Linux distribution " \o ToString(script.distribution)
                             \o " is not currently not supported"
           /\ script.commands = <<>>
           /\ script.ran = <<>>

C13_Witness ==
    /\ script.pc = "thrown"
    /\ script.distribution = 15
    /\ script.error = "Linux distribution 15 is not currently not supported"

(***************************************************************************)
(* C19.  As claimed: for two versions with the same number of components,  *)
(* is_kernel_version_lower reports 'lower' exactly when, at the first      *)
(* position where the numeric components differ, the left component is the *)
(* smaller.                                                                *)
(***************************************************************************)
C19_FirstDifferenceDecides ==
    HelperReturned
        => (script.lower <=> FirstDifferenceLower(ComponentsOf(script.KERNEL_VERSION),
                                                  ComponentsOf(script.MIN_VER)))

(***************************************************************************)
(* C20.  When the two versions split into different numbers of components, *)
(* is_kernel_version_lower prints the error 'Kernel version lengths do not *)
(* match', ends the script with status 1 before comparing any component,   *)
(* and neither the kernel update nor the Lustre client installation runs.  *)
(***************************************************************************)
C20_LengthMismatchExits ==
    (HelperCalled
     /\ ComponentCount(script.KERNEL_VERSION) # ComponentCount(script.MIN_VER))
        => /\ script.pc = "exited"
           /\ script.exitStatus = 1
           /\ script.output = "ERROR: Kernel version lengths do not match: "
                              \o VersionText(script.KERNEL_VERSION) \o " "
                              \o VersionText(script.MIN_VER)
           /\ script.compared = 0
           /\ script.ran = <<>>

C20_Witness ==
    /\ script.pc = "exited"
    /\ script.exitStatus = 1
    /\ script.output =
           "ERROR: Kernel version lengths do not match: 5.4.0-1045-aws 4.14.104-95.84.amzn2.x86_64"
    /\ script.ran = <<>>

(***************************************************************************)
(* C14.  A run of mountNfs.sh attempts the mount at most 20 times, sleeps  *)
(* 2 seconds after every failed attempt (so 2 seconds lie between two      *)
(* attempts), and whatever the attempts return, a run that has entered the *)
(* retry loop reaches the final verification.                              *)
(***************************************************************************)
C14_RetryLoopTerminates ==
    /\ [](/\ script.attempts <= 20
          /\ script.TRIES <= 20
          /\ script.slept = 2 * script.TRIES
          /\ script.attempts = IF script.pc = "sleep" THEN script.TRIES + 1
                               ELSE IF script.mountStatus = 0 THEN script.TRIES + 1
                               ELSE script.TRIES)
    /\ (script.pc = "loop") ~> (script.pc = "verify")

C14_Witness ==
    /\ script.pc = "verify"
    /\ script.attempts = 20
    /\ script.slept = 40
    /\ script.mountStatus = 32

(***************************************************************************)
(* C15.  As claimed: a run of mountNfs.sh that has reached the             *)
(* verification ends with a non-zero status whenever the target mount path *)
(* is not a mount point of the live mount table, whatever the last mount   *)
(* command returned.                                                       *)
(***************************************************************************)
C15_AbsentPathFails ==
    (script.pc = "done" /\ script.args.count >= 3)
        => ((\A m \in script.mounts : m.dir # MountPoint(script.MOUNT_PATH))
                => script.exitStatus # 0)

(***************************************************************************)
(* C16.  As claimed: a second run of mountNfs.sh with the same arguments   *)
(* leaves /etc/fstab as the first run left it.                             *)
(***************************************************************************)
C16_SecondRunKeepsFstab ==
    (script.pc = "done" /\ script.runs = 2)
        => script.fstab = script.fstabAfterLastRun

(***************************************************************************)
(* Vocabulary of the claims about the files the scripts append to.         *)
(***************************************************************************)
\* The lines of a file that are not blank.
RECURSIVE NonBlank(_)
NonBlank(lines) ==
    IF lines = <<>> THEN <<>>
    ELSE (IF Head(lines) = "" THEN <<>> ELSE <<Head(lines)>>) \o NonBlank(Tail(lines))

\* The text of a file cut at the newlines: the complete lines and, when the
\* file does not end in a newline, the rest as a last piece.
Pieces(file) ==
    file.lines \o (IF file.partial = "" THEN <<>> ELSE <<file.partial>>)

\* The run is past line 39 (the append to /etc/fstab).
PastFstabAppend ==
    script.args.count >= 3 /\ script.pc \in {"loop", "sleep", "verify", "done"}

(***************************************************************************)
(* C24.  A run of mountNfs.sh with at least three arguments adds one entry *)
(* to /etc/fstab, as a complete last line of its own after everything the  *)
(* file held before (text the file ended with, unterminated, is a line of  *)
(* its own before it), of the form '<endpoint>:<server-dir> <mount-path>   *)
(* nfs4 nfsvers=4.1,rsize=1048576,wsize=1048576,hard,timeo=600,retrans=2,  *)
(* _netdev,<options> 0 0'; no mount is attempted before the entry is       *)
(* there.                                                                  *)
(***************************************************************************)
C24_OneFstabEntryBeforeMount ==
    /\ PastFstabAppend
         => /\ script.fstab.partial = ""
            /\ NonBlank(script.fstab.lines) =
                   Append(NonBlank(Pieces(script.fstabAfterLastRun)),
                          PathText(script.args.endpoint) \o ":"
                          \o PathText(script.args.directory) \o " "
                          \o PathText(script.args.path)
                          \o " nfs4 nfsvers=4.1,rsize=1048576,wsize=1048576,hard,"
                          \o "timeo=600,retrans=2,_netdev," \o script.args.options
                          \o " 0 0")
    /\ ~PastFstabAppend => script.attempts = 0

C24_Witness ==
    /\ script.pc = "done"
    /\ script.runs = 1
    /\ script.attempts = 1
    /\ script.fstab =
         Fstab(<< "LABEL=/ / xfs defaults,noatime 1 1",
                  "h:/s /a nfs4 nfsvers=4.1,rsize=1048576,wsize=1048576,hard,timeo=600,retrans=2,_netdev,rw 0 0" >>,
               "")
    /\ script.fstabAfterLastRun = Fstab(<<>>, "LABEL=/ / xfs defaults,noatime 1 1")

(***************************************************************************)
(* C27.  As claimed: a run of mountNfs.sh ends with status zero only if a  *)
(* filesystem is mounted at the given mount path itself.                   *)
(***************************************************************************)
C27_SuccessMeansPathMounted ==
    (script.pc = "done" /\ script.exitStatus = 0)
        => \E m \in script.mounts : m.dir = MountPoint(script.MOUNT_PATH)

(***************************************************************************)
(* C28.  In the retry loop of mountNfs.sh, once a mount attempt has        *)
(* succeeded the run makes no further attempt and takes no further delay;  *)
(* when the loop has ended, the seconds slept are 2 for every failed       *)
(* attempt; the attempt counter never exceeds 20.                          *)
(***************************************************************************)
C28_NoRetryAfterSuccess ==
    /\ [][ (script.mountStatus = 0 /\ script'.runs = script.runs)
             => /\ script'.attempts = script.attempts
                /\ script'.slept = script.slept
                /\ script'.TRIES = script.TRIES
                /\ script'.pc \in {"verify", "done"} ]_vars
    /\ [](/\ script.TRIES <= 20
          /\ script.pc \in {"verify", "done"}
               => script.slept = 2 * (IF script.mountStatus = 0
                                      THEN script.attempts - 1
                                      ELSE script.attempts))

C28_Witness ==
    /\ script.pc = "done"
    /\ script.mountStatus = 0
    /\ script.attempts = 3
    /\ script.slept = 4

(***************************************************************************)
(* Vocabulary of the claims about the commands in a boot buffer.           *)
(***************************************************************************)
OfKind(cmds, kind) == SelectSeq(cmds, LAMBDA c : c.kind = kind)

\* The positions of the commands of a kind.
Positions(cmds, kind) == {i \in 1..Len(cmds) : cmds[i].kind = kind}

\* The command that copies an asset to the local path the code was given.
IsDownloadTo(cmd, localPath, nodes) ==
    /\ cmd.kind = "download"
    /\ \E c \in nodes :
           cmd.text = "aws s3 cp 's3://${Token[asset" \o ToString(c.handle)
                      \o ".bucket]}/${Token[asset" \o ToString(c.handle)
                      \o ".key]}' '" \o localPath \o "'"

(***************************************************************************)
(* C25.  The command a share call appends runs the export script at the    *)
(* path the constructor's download returned, with the three arguments      *)
(* mount location, client, options in this order; and in the server's      *)
(* boot buffer the download of that script comes before every invocation.  *)
(***************************************************************************)
C25_ShareInvokesDownloadedScript ==
    [][ Called(ShareOp)
          => LET cmds == userData'[SERVER]
                 options == IF IsSome(lastCall'.nfsOptions) THEN lastCall'.nfsOptions[1]
                            ELSE <<"rw", "sync", "no_subtree_check", "insecure">>
             IN  /\ cmds[Len(cmds)].kind = "export"
                 /\ cmds[Len(cmds)].text =
                        "'" \o nfs.exportNfsDirectoryScriptPath \o "' \"/mnt/nfs\" \""
                        \o lastCall'.client \o "\" \"" \o Join(options, ",") \o "\""
                 /\ \A i \in Positions(cmds, "export") :
                        \E j \in 1..(i - 1) :
                            IsDownloadTo(cmds[j], nfs.exportNfsDirectoryScriptPath,
                                         children') ]_vars

C25_Witness ==
    /\ nfs.built
    /\ CountKind(userData[SERVER], "export") = 3
    /\ lastCall.op = ShareOp
    /\ lastCall.client = "client-a"
    /\ lastCall.nfsOptions = Some(<<"ro", "sync">>)

(***************************************************************************)
(* C26.  As claimed: every successful mountToLinuxInstance appends one     *)
(* bundle download and one mount-script invocation to the target's boot    *)
(* buffer, and all the downloads in the buffer name the same source.       *)
(***************************************************************************)
C26_AllDownloadsSameSource ==
    [][ (CalledMount /\ lastCall'.error = "")
          => LET target == lastCall'.target
             IN  /\ CountKind(Added(target), "download") = 1
                 /\ CountKind(Added(target), "mount") = 1
                 /\ \A i, j \in Positions(userData'[target], "download") :
                        userData'[target][i].text = userData'[target][j].text ]_vars

(***************************************************************************)
(* C26, amended.  Mount commands are not deduplicated: every successful    *)
(* mountToLinuxInstance appends one bundle download and one mount-script   *)
(* invocation to the target's boot buffer, also when the same mount was    *)
(* made before; the download names the bundle of the call's filesystem     *)
(* type in the call's stack, so the downloads of calls of one type from    *)
(* one stack name the same source and those of other stacks or types       *)
(* another.                                                                *)
(***************************************************************************)
C26_MountsNotDeduplicated ==
    [][ (CalledMount /\ lastCall'.error = "")
          => LET target == lastCall'.target
                 n == Len(lookups')
                 source(h) == "s3://${Token[asset" \o ToString(h) \o ".bucket]}/"
                              \o "${Token[asset" \o ToString(h) \o ".key]}"
             IN  /\ CountKind(Added(target), "download") = 1
                 /\ CountKind(Added(target), "mount") = 1
                 /\ n = Len(lookups) + 1
                 /\ OfKind(Added(target), "download")[1].text =
                        "aws s3 cp '" \o source(lookups'[n].handle) \o "' '/tmp/"
                        \o "${Token[asset" \o ToString(lookups'[n].handle) \o ".key]}'"
                 /\ \A i \in 1..n :
                        (lookups'[i].stack = lookups'[n].stack
                         /\ lookups'[i].id = lookups'[n].id)
                            <=> source(lookups'[i].handle) = source(lookups'[n].handle) ]_vars

C26_Witness ==
    /\ lastCall.op = NfsMountOp
    /\ lastCall.error = ""
    /\ Len(lookups) = 3
    /\ Len(OfKind(userData["Instance"], "download")) = 3
    /\ Len(OfKind(userData["Instance"], "mount")) = 3
    /\ OfKind(userData["Instance"], "download")[1] = OfKind(userData["Instance"], "download")[2]
    /\ OfKind(userData["Instance"], "download")[1] # OfKind(userData["Instance"], "download")[3]

(***************************************************************************)
(* C29.  A mountToLinuxInstance call of the NFS filesystem leaves the      *)
(* server's export list, the server's boot buffer and exit trap and the    *)
(* NfsInstance's fields as they were, and changes no boot buffer but the   *)
(* target's; on a Linux target it succeeds whatever the export list holds. *)
(***************************************************************************)
C29_MountLeavesServerAlone ==
    [][ Called(NfsMountOp)
          => /\ UNCHANGED <<exports, nfs, securityGroups, onExitLines>>
             /\ \A h \in Hosts \ {lastCall'.target} : userData'[h] = userData[h]
             /\ userData'[SERVER] = userData[SERVER]
             /\ OsType(lastCall'.target) = LINUX
                    => /\ lastCall'.error = ""
                       /\ CountKind(Added(lastCall'.target), "mount") = 1 ]_vars

C29_Witness ==
    /\ nfs.built
    /\ exports = <<>>
    /\ lastCall.op = NfsMountOp
    /\ lastCall.error = ""
    /\ CountKind(userData["Instance"], "mount") = 1
    /\ CountKind(userData[SERVER], "export") = 0
    /\ ingress # {}

(***************************************************************************)
(* C30.  In every state the server's boot buffer holds as many             *)
(* export-script invocations as the export list has records, and the i-th  *)
(* invocation carries the client and the options of the i-th record.       *)
(***************************************************************************)
C30_InvocationsMatchExports ==
    LET invocations == OfKind(userData[SERVER], "export")
    IN  /\ Len(invocations) = Len(exports)
        /\ \A i \in 1..Len(exports) :
               invocations[i].text =
                   "'" \o nfs.exportNfsDirectoryScriptPath \o "' \"/mnt/nfs\" \""
                   \o exports[i].client \o "\" \""
                   \o Join(exports[i].nfsOptions, ",") \o "\""

C30_Witness ==
    /\ Len(exports) = 2
    /\ exports[1].client = "client-a"
    /\ exports[2].client = "10.0.0.0/24"
    /\ exports[1].nfsOptions # exports[2].nfsOptions
    /\ Len(OfKind(userData[SERVER], "export")) = 2

(***************************************************************************)
(* Vocabulary of the claims about the generated installation commands run  *)
(* from their first line.                                                  *)
(***************************************************************************)
ScriptRun == script.entry = "script" /\ script.pc \notin {"define", "classify"}

Ran(command) == \E i \in 1..Len(script.ran) : script.ran[i] = command

\* The version has the form <n>.<n>.<n>-<n>.<n>.amzn2.<arch>.
HasAmazonLinux2Form(v, arch) ==
    /\ Len(v) = 13
    /\ \A i \in {1, 3, 5, 7, 9} : v[i].kind = "num"
    /\ <<v[2].text, v[4].text, v[6].text, v[8].text, v[10].text, v[12].text>>
           = <<".", ".", "-", ".", ".", ".">>
    /\ v[11] = Word("amzn2")
    /\ v[13] = Word(arch)

(***************************************************************************)
(* C21.  As claimed: when the Amazon Linux 2 commands have run to their    *)
(* end, the kernel update has run exactly when the running kernel is       *)
(* older than the minimum of its architecture (the first differing number  *)
(* is smaller), the reboot only after the update, both before the client   *)
(* install; for a kernel at or above the minimum only the client install   *)
(* has run.                                                                *)
(***************************************************************************)
C21_UpdateIffKernelOlder ==
    (ScriptRun /\ script.pc = "done")
        => LET older == FirstDifferenceLower(ComponentsOf(script.KERNEL_VERSION),
                                             ComponentsOf(script.MIN_VER))
           IN  /\ script.ran[Len(script.ran)] = "sudo amazon-linux-extras install -y lustre2.10"
               /\ older <=> Ran("sudo yum -y update kernel")
               /\ Ran("sudo reboot") => script.ran[1] = "sudo yum -y update kernel"
               /\ ~older => script.ran = <<"sudo amazon-linux-extras install -y lustre2.10">>

(***************************************************************************)
(* C22.  No kernel version matches both patterns; a version of the form    *)
(* <n>.<n>.<n>-<n>.<n>.amzn2.x86_64 gets the minimum                       *)
(* 4.14.104-95.84.amzn2.x86_64, one of that form ending in aarch64 gets    *)
(* 4.14.181-142.260.amzn2.aarch64, and for any other version the commands  *)
(* print 'Not on Amazon Linux 2. Exiting...' and exit with status 1 before *)
(* any comparison, kernel update or client install.                        *)
(***************************************************************************)
C22_KernelClassification ==
    ScriptRun
        => LET x86 == HasAmazonLinux2Form(script.KERNEL_VERSION, "x86_64")
               graviton == HasAmazonLinux2Form(script.KERNEL_VERSION, "aarch64")
           IN  /\ ~(MatchesPattern(script.KERNEL_VERSION, KernelPattern("x86_64"))
                    /\ MatchesPattern(script.KERNEL_VERSION, KernelPattern("aarch64")))
               /\ x86 => VersionText(script.MIN_VER) = "4.14.104-95.84.amzn2.x86_64"
               /\ graviton => VersionText(script.MIN_VER) = "4.14.181-142.260.amzn2.aarch64"
               /\ (~x86 /\ ~graviton)
                      => /\ script.pc = "exited"
                         /\ script.exitStatus = 1
                         /\ script.output = "Not on Amazon Linux 2. Exiting..."
                         /\ script.compared = 0
                         /\ script.ran = <<>>

C22_Witness ==
    /\ script.entry = "script"
    /\ script.pc = "exited"
    /\ VersionText(script.KERNEL_VERSION) = "4.14.104-95.84.amzn1.x86_64"
    /\ script.output = "Not on Amazon Linux 2. Exiting..."
    /\ script.ran = <<>>

(***************************************************************************)
(* C23.  A run of exportNfsDirectory.sh with three arguments leaves        *)
(* /etc/exports ending in a newline and holding, after the lines it had    *)
(* when the run began (an unfinished last line completed), exactly one     *)
(* more line '<dir> <client>(<options>,all_squash,anonuid=<uid>,           *)
(* anongid=<gid>)' with the ids of the account nfs-user; until that append *)
(* the run has added no line; and the run has created the account exactly  *)
(* when it did not exist when the run began.                               *)
(***************************************************************************)
C23_OneExportLinePerRun ==
    (Len(script.args) = 3 /\ script.pc # "check")
        => LET before == NonBlank(Pieces(script.atStart.exports))
               created == script.useradds - script.atStart.useradds
           IN  /\ script.pc \in {"reload", "done"}
                    => /\ script.exports.partial = ""
                       /\ NonBlank(script.exports.lines) =
                              Append(before,
                                     script.args[1] \o " " \o script.args[2] \o "("
                                     \o script.args[3] \o ",all_squash,anonuid="
                                     \o ToString(script.passwd[1].uid) \o ",anongid="
                                     \o ToString(script.passwd[1].gid) \o ")")
               /\ script.pc \notin {"reload", "done"}
                    => NonBlank(Pieces(script.exports)) = before
               /\ script.pc # "account"
                    => created = (IF script.atStart.passwd = <<>> THEN 1 ELSE 0)
               /\ script.pc = "account" => created = 0

C23_Witness ==
    /\ script.pc = "done"
    /\ script.runs = 1
    /\ script.useradds = 1
    /\ script.atStart.passwd # <<>>
    /\ script.atStart.exports = Fstab(<<"", "/mnt/a *(ro,all_squash,anonuid=1002,anongid=1001)">>, "")
    /\ script.exports.lines =
         << "", "/mnt/a *(ro,all_squash,anonuid=1002,anongid=1001)",
            "/mnt/b 10.0.0.0/16(rw,sync,all_squash,anonuid=1002,anongid=1001)" >>

====
